---- MODULE Spec2Model ----
(***************************************************************************)
(* A model of honeybee's Face (src/honeybee/face.py): its face type, its   *)
(* boundary condition, the Apertures and Doors it holds, its cached        *)
(* punched geometry, and the operations that edit them.                    *)
(*                                                                         *)
(* Every method of Face is an operator from a program state (the record    *)
(* State) to a program state; a raised exception is the field exc, after   *)
(* which nothing more of the call runs, while what the call had already    *)
(* written stays written, as in Python.  An action of the model is one     *)
(* call of a method by a client, with its arguments drawn from small sets. *)
(*                                                                         *)
(* Geometry is abstracted to what the methods of Face read: a sub-face is  *)
(* its centre (a point of a line) and whether it is                       *)
(* degenerate (colinear-vertex removal fails on it); a Face geometry is a  *)
(* version that every transform changes, and whether it is degenerate.     *)
(* Ratios are in hundredths (50 is 0.5).                                   *)
(***************************************************************************)
EXTENDS Integers, Sequences, FiniteSets, TLC

\* The two Faces of the model (set_adjacency takes two).
Faces == {1, 2}

\* Bounds of the model.
MaxAlloc == 3     \* Aperture and Door objects ever constructed (Spec, SpecPunched)
MaxAllocAdj == 4  \* Aperture and Door objects ever constructed (SpecAdj)
MaxAllocRect == 2 \* Aperture objects the client constructs (SpecRect)
MaxAllocFix == 2  \* Aperture and Door objects the client constructs (SpecFix)
MaxPerFace == 1   \* apertures, and doors, the client gives each Face (SpecRectAdj)
MaxAllocRectAdj == 4 * MaxPerFace  \* objects the client constructs (SpecRectAdj)
MaxAllocDict == 4 * MaxPerFace \* Aperture and Door objects the client constructs (SpecDict)
MaxAllocCheck == 2 \* Aperture and Door objects the client constructs (SpecCheck)
MaxAllocCli == 2 \* Aperture and Door objects constructed (SpecCli)
MaxHoles == 5    \* holes in the geometry of a dictionary (SpecHoles)
MaxAllocOverlap == 3 \* Aperture and Door objects the client constructs (SpecOverlap)
MaxAllocRepair == 2 \* Aperture and Door objects the client constructs (SpecRepair)
MaxRows == 3     \* row groups of the grid over one aperture (SpecRows)
MaxGen == 2       \* geometries the geometry library returns to one builder call

\* Centres of sub-faces (points of a line) and tolerances handed to
\* set_adjacency: a distance is below, at or above a tolerance.
Coords == {0, 1}
Tolerances == {0, 1}
\* Ratios handed to the builders, in hundredths.
Ratios == {-1, 0, 95, 96, 100}
\* Heights, widths and horizontal separations handed to
\* apertures_by_width_height_rectangle: not positive, or positive.
Dimensions == {0, 1}
\* Vertices of a hole of a geometry dictionary: fewer than MinVertices, or not.
MinVertices == 3
HoleSizes == {MinVertices - 1, MinVertices}
\* Face types handed to the type setter (Face.TYPES).
FaceTypes == {"Wall", "AirBoundary"}

None == 0

VARIABLES
    type,                \* Face._type
    boundary_condition,  \* Face._boundary_condition
    apertures,           \* Face._apertures: a list of Aperture objects
    doors,               \* Face._doors: a list of Door objects
    punched_geometry,    \* Face._punched_geometry: None or the cached Face3D
    geometry,            \* Face._geometry
    sub,                 \* the Aperture and Door objects constructed so far
    ret                  \* the last call: its method, arguments and outcome

vars == <<type, boundary_condition, apertures, doors, punched_geometry,
          geometry, sub, ret>>

----------------------------------------------------------------------------
\* Boundary conditions (honeybee.boundarycondition).
Outdoors == [name |-> "Outdoors", adj |-> None]
Ground == [name |-> "Ground", adj |-> None]
Adiabatic == [name |-> "Adiabatic", adj |-> None]
Surface(other) == [name |-> "Surface", adj |-> other]

BoundaryConditions(f) == {Outdoors, Ground, Adiabatic} \cup
                         {Surface(g) : g \in Faces \ {f}}

Range(s) == {s[i] : i \in 1..Len(s)}

Min(S) == CHOOSE x \in S : \A y \in S : x <= y

\* Point3D.distance_to_point between two centres.
Dist(c1, c2) == IF c1 >= c2 THEN c1 - c2 ELSE c2 - c1

----------------------------------------------------------------------------
\* The program state a method reads and writes.
State == [type |-> type, boundary_condition |-> boundary_condition,
          apertures |-> apertures, doors |-> doors,
          punched_geometry |-> punched_geometry, geometry |-> geometry,
          sub |-> sub, exc |-> FALSE, result |-> <<>>]

\* An exception leaves the method: what was written stays written.
Raise(s) == [s EXCEPT !.exc = TRUE]

Commit(s) ==
    /\ type' = s.type
    /\ boundary_condition' = s.boundary_condition
    /\ apertures' = s.apertures
    /\ doors' = s.doors
    /\ punched_geometry' = s.punched_geometry
    /\ geometry' = s.geometry
    /\ sub' = s.sub

\* A call of method op on Face f: ret keeps its arguments (other, num), the
\* number of sub-faces the Face held when it was called, whether it raised,
\* and what it returned.
Call(op, f, other, num, s) ==
    /\ Commit(s)
    /\ ret' = [op |-> op, face |-> f, other |-> other, num |-> num,
               had |-> Len(apertures[f]) + Len(doors[f]),
               raised |-> s.exc, result |-> s.result]

\* The geometry of a sub-face, as the methods of Face read it.
SubGeometry(s, o) == [center |-> s.sub[o].center,
                      degenerate |-> s.sub[o].degenerate]

sub_faces(s, f) == s.apertures[f] \o s.doors[f]

has_sub_faces(s, f) == ~(s.apertures[f] = <<>> /\ s.doors[f] = <<>>)

\* Face3D.from_punched_geometry of the Face as it is now.
Punched(s, f) ==
    [geo |-> s.geometry[f],
     holes |-> [i \in 1..Len(sub_faces(s, f)) |->
                   SubGeometry(s, sub_faces(s, f)[i])]]

----------------------------------------------------------------------------
\* Face.type setter: the assertion of lines 212-214.
TypeAssignable(s, f, value) ==
    value = "AirBoundary" => (s.apertures[f] = <<>> \/ s.doors[f] = <<>>)

set_type(s, f, value) ==
    IF ~TypeAssignable(s, f, value) THEN Raise(s)
    ELSE [s EXCEPT !.type[f] = value]

\* Face.boundary_condition setter: the assertion of lines 228-230.
BcAssignableUnchecked(s, f, value) == TRUE

BcAssignable(s, f, value) ==
    (s.apertures[f] # <<>> \/ s.doors[f] # <<>>)
        => value.name \in {"Outdoors", "Surface"}

set_boundary_condition(s, f, value) ==
    IF ~BcAssignable(s, f, value) THEN Raise(s)
    ELSE [s EXCEPT !.boundary_condition[f] = value]

\* A Surface boundary condition is accepted too: the mutant of C22.
AcceptableSubFaceOrSurface(s, f) ==
    /\ s.boundary_condition[f].name \in {"Outdoors", "Surface"}
    /\ s.type[f] # "AirBoundary"

\* Face._acceptable_sub_face_check passes.
AcceptableSubFace(s, f) ==
    /\ s.boundary_condition[f].name = "Outdoors"
    /\ s.type[f] # "AirBoundary"

\* Face.punched_geometry (property): computed on the first read after a reset.
get_punched_geometry(s, f) ==
    IF s.punched_geometry[f] = <<>>
    THEN [s EXCEPT !.punched_geometry[f] = <<Punched(s, f)>>,
                   !.result = <<Punched(s, f)>>]
    ELSE [s EXCEPT !.result = s.punched_geometry[f]]

\* Face.remove_apertures.
remove_apertures(s, f) ==
    [s EXCEPT !.sub = [o \in DOMAIN s.sub |->
                          IF o \in Range(s.apertures[f])
                          THEN [s.sub[o] EXCEPT !.parent = None]
                          ELSE s.sub[o]],
              !.apertures[f] = <<>>,
              !.punched_geometry[f] = <<>>]

\* Face.remove_doors: the loop of lines 488-489 runs over self._apertures.
remove_doors(s, f) ==
    [s EXCEPT !.sub = [o \in DOMAIN s.sub |->
                          IF o \in Range(s.apertures[f])
                          THEN [s.sub[o] EXCEPT !.parent = None]
                          ELSE s.sub[o]],
              !.doors[f] = <<>>,
              !.punched_geometry[f] = <<>>]

\* Face.remove_sub_faces.
remove_sub_faces_keeping_doors(s, f) == remove_apertures(s, f)

remove_sub_faces(s, f) == remove_doors(remove_apertures(s, f), f)

\* Face.add_aperture / Face.add_door of an object o already constructed.
add_aperture(s, f, o) ==
    IF s.exc THEN s
    ELSE IF ~AcceptableSubFace(s, f) THEN Raise(s)
    ELSE [s EXCEPT !.sub[o].parent = f,
                   !.apertures[f] = Append(@, o),
                   !.punched_geometry[f] = <<>>]

add_door(s, f, o) ==
    IF s.exc THEN s
    ELSE IF ~AcceptableSubFace(s, f) THEN Raise(s)
    ELSE [s EXCEPT !.sub[o].parent = f,
                   !.doors[f] = Append(@, o),
                   !.punched_geometry[f] = <<>>]

\* Aperture(identifier, geometry) / Door(identifier, geometry): a new object,
\* with no parent, an Outdoors boundary condition and is_operable False.  The
\* geometry is a centre, whether it is degenerate and whether it is a rectangle.
Construct(s, kind, name, center, degenerate) ==
    [s EXCEPT !.sub = Append(@, [kind |-> kind, name |-> name,
                                 parent |-> None, center |-> center,
                                 degenerate |-> degenerate, adj |-> None,
                                 rectangular |-> TRUE, operable |-> FALSE])]

\* Aperture(identifier, geometry, is_operable=...) with a geometry that is a
\* rectangle or not.
ConstructShaped(s, name, center, degenerate, rectangular, operable) ==
    LET s1 == Construct(s, "Aperture", name, center, degenerate)
    IN  [s1 EXCEPT !.sub[Len(s1.sub)].rectangular = rectangular,
                   !.sub[Len(s1.sub)].operable = operable]

\* The identifier of a sub-face: given by the client (tag "usr", numbered by
\* construction) or made by a method of Face for its i-th geometry.
UserName(s) == [face |-> None, tag |-> "usr", i |-> Len(s.sub) + 1]
MadeName(f, tag, i) == [face |-> f, tag |-> tag, i |-> i]

----------------------------------------------------------------------------
\* Face.set_adjacency.

\* Aperture.set_adjacency / Door.set_adjacency: each sub-face gets a Surface
\* boundary condition naming the other.
sub_face_set_adjacency(s, a, b) ==
    [s EXCEPT !.sub[a].adj = b, !.sub[b].adj = a]

\* The test of lines 613 and 634.
WithinStrict(c1, c2, tolerance) == Dist(c1, c2) < tolerance

Within(c1, c2, tolerance) == Dist(c1, c2) <= tolerance

\* The inner loop of lines 612-617: the index in others of the first sub-face
\* whose centre is within the tolerance, 0 when the loop ends without a break.
LastMatch(s, c, others, tolerance) ==
    LET idx == {j \in 1..Len(others) :
                    Within(c, s.sub[others[j]].center, tolerance)}
    IN  IF idx = {} THEN 0 ELSE CHOOSE j \in idx : \A k \in idx : k <= j

FirstMatch(s, c, others, tolerance) ==
    LET idx == {j \in 1..Len(others) :
                    Within(c, s.sub[others[j]].center, tolerance)}
    IN  IF idx = {} THEN 0 ELSE Min(idx)

\* The outer loop of lines 611-617 (apertures) and 632-638 (doors), from the
\* i-th sub-face of this Face on; result collects the pairs.
RECURSIVE PairSubFaces(_, _, _, _, _)
PairSubFaces(s, mine, others, tolerance, i) ==
    IF i > Len(mine) THEN s
    ELSE LET j == FirstMatch(s, s.sub[mine[i]].center, others, tolerance)
         IN  IF j = 0
             THEN PairSubFaces(s, mine, others, tolerance, i + 1)
             ELSE PairSubFaces(
                      [sub_face_set_adjacency(s, mine[i], others[j])
                          EXCEPT !.result = Append(@, <<mine[i], others[j]>>)],
                      mine, others, tolerance, i + 1)

\* The checks of lines 602 and 627.
DoorCountUnchecked(s, f, g) == FALSE

ApertureCountMismatch(s, f, g) == Len(s.apertures[f]) # Len(s.apertures[g])

DoorCountMismatch(s, f, g) == Len(s.doors[f]) # Len(s.doors[g])

set_adjacency(s, f, g, tolerance) ==
    LET s1 == [s EXCEPT !.boundary_condition[f] = Surface(g),
                        !.boundary_condition[g] = Surface(f)]
        sa == PairSubFaces(s1, s.apertures[f], s.apertures[g], tolerance, 1)
        sd == PairSubFaces([sa EXCEPT !.result = <<>>],
                           s.doors[f], s.doors[g], tolerance, 1)
        adj_info == [adjacent_apertures |-> sa.result,
                     adjacent_doors |-> sd.result]
    IN  IF ApertureCountMismatch(s, f, g) THEN Raise(s1)
        ELSE IF Len(s.apertures[f]) # Len(sa.result)
             THEN Raise([sa EXCEPT !.result = <<>>])
        ELSE IF DoorCountMismatch(s, f, g)
             THEN Raise([sa EXCEPT !.result = <<>>])
        ELSE IF Len(s.doors[f]) # Len(sd.result)
             THEN Raise([sd EXCEPT !.result = <<>>])
        ELSE [sd EXCEPT !.result = adj_info]

----------------------------------------------------------------------------
\* The ratio builders.

\* The assertions of lines 1218 and 1323, and of line 1275 (hundredths).
RatioOkInclusive(ratio) == 0 <= ratio /\ ratio <= 100

RatioOk(ratio) == 0 <= ratio /\ ratio < 100

RatioRectangleOk(ratio) == 0 <= ratio /\ ratio <= 95

\* The loop of lines 1231-1233 (1288-1290, 1333-1335) from the i-th geometry
\* on: Aperture('<faceID>_Glz<i>', ap_face), then add_aperture.  The library
\* lays the n geometries out along the Face.
RECURSIVE AddGenerated(_, _, _, _)
AddGenerated(s, f, n, i) ==
    IF i >= n THEN s
    ELSE LET c == IF i = 0 THEN 0 ELSE 1
             s1 == Construct(s, "Aperture", MadeName(f, "Glz", i), c, FALSE)
         IN  AddGenerated(add_aperture(s1, f, Len(s1.sub)), f, n, i + 1)

\* What follows the ratio assertion in each of the three builders.
Build(s, f, ratio, n) ==
    IF ~AcceptableSubFace(s, f) THEN Raise(s)
    ELSE LET s1 == remove_sub_faces(s, f)
         IN  IF ratio = 0 THEN s1
             ELSE IF s1.geometry[f].degenerate THEN s1
             ELSE AddGenerated(s1, f, n, 0)

apertures_by_ratio(s, f, ratio, n) ==
    IF ~RatioOk(ratio) THEN Raise(s) ELSE Build(s, f, ratio, n)

apertures_by_ratio_rectangle(s, f, ratio, n) ==
    IF ~RatioRectangleOk(ratio) THEN Raise(s) ELSE Build(s, f, ratio, n)

apertures_by_ratio_gridded(s, f, ratio, n) ==
    IF ~RatioOk(ratio) THEN Raise(s) ELSE Build(s, f, ratio, n)

\* The degenerate Face is not skipped: the mutant of C11.
BuildDimensionsOnDegenerate(s, f, n) ==
    IF ~AcceptableSubFace(s, f) THEN Raise(s)
    ELSE LET s1 == remove_sub_faces(s, f)
         IN  IF s1.geometry[f].degenerate THEN Raise(s1)
             ELSE AddGenerated(s1, f, n, 0)

\* Lines 1373-1385: what follows the tests of the dimensions.
BuildDimensions(s, f, n) ==
    IF ~AcceptableSubFace(s, f) THEN Raise(s)
    ELSE LET s1 == remove_sub_faces(s, f)
         IN  IF s1.geometry[f].degenerate THEN s1
             ELSE AddGenerated(s1, f, n, 0)

\* Face.apertures_by_width_height_rectangle; n is the number of geometries
\* that sub_faces_by_dimension_rectangle returns.
apertures_by_width_height_rectangle(s, f, aperture_height, aperture_width, horizontal_separation, n) ==
    IF ~(horizontal_separation > 0) THEN Raise(s)
    ELSE IF aperture_height <= 0 \/ aperture_width <= 0 THEN s
    ELSE BuildDimensions(s, f, n)

----------------------------------------------------------------------------
\* Face.rectangularize_apertures.  Its arguments are subdivide
\* (subdivision_distance is not None), merge (max_separation is not None) and
\* merge_all; joined is what the geometry library returns for the merged
\* geometries, and strips[i] the number of strips it cuts the i-th of the
\* apertures to subdivide into (0: the aperture is smaller than the resolution).

\* The centres of geometries: those of Coords, and 2 for a geometry that lies
\* between them and spans both.
GeoCenters == Coords \cup {2}

Covers(center) == IF center \in Coords THEN {center} ELSE Coords \cup {center}

GeometryOf(s, o) ==
    [center |-> s.sub[o].center, degenerate |-> s.sub[o].degenerate,
     rectangular |-> s.sub[o].rectangular]

\* The geometries that joining returns.
Geometries ==
    {[center |-> 0, degenerate |-> TRUE, rectangular |-> FALSE]} \cup
    [center : {0, 2}, degenerate : {FALSE}, rectangular : BOOLEAN]

\* The numbers of strips that the grid cuts an aperture into.
StripCounts == 0..2

RECURSIVE SeqsUpTo(_, _)
SeqsUpTo(S, n) ==
    IF n = 0 THEN {<<>>}
    ELSE LET shorter == SeqsUpTo(S, n - 1)
         IN  shorter \cup {Append(q, x) : q \in {r \in shorter : Len(r) = n - 1}, x \in S}

MapSeq(seq, Op(_)) == [i \in 1..Len(seq) |-> Op(seq[i])]

\* Lines 693-708: the apertures that stay and those to be rectangularized;
\* degenerate apertures are in neither list.
rect_aps(s, f, merge, merge_all) ==
    IF ~merge \/ ~merge_all
    THEN SelectSeq(s.apertures[f],
                   LAMBDA o : ~s.sub[o].degenerate /\ s.sub[o].rectangular)
    ELSE <<>>

\* Every aperture is taken for rectangularization: the mutant of C12.
non_rect_aps_unsorted(s, f, merge, merge_all) ==
    SelectSeq(s.apertures[f], LAMBDA o : ~s.sub[o].degenerate)

non_rect_aps(s, f, merge, merge_all) ==
    IF ~merge \/ ~merge_all
    THEN SelectSeq(s.apertures[f],
                   LAMBDA o : ~s.sub[o].degenerate /\ ~s.sub[o].rectangular)
    ELSE SelectSeq(s.apertures[f], LAMBDA o : ~s.sub[o].degenerate)

\* Lines 713-716.
reset_boundary_condition(s, f, rects) ==
    IF s.boundary_condition[f].name = "Outdoors" THEN s
    ELSE LET s1 == set_boundary_condition(s, f, Outdoors)
         IN  [s1 EXCEPT !.sub = [o \in DOMAIN s1.sub |->
                 IF o \in Range(rects) THEN [s1.sub[o] EXCEPT !.adj = None]
                 ELSE s1.sub[o]]]

\* Lines 721-722: whether the geometries are joined.
Merging(merge, merge_all, non_rect_geos) ==
    merge /\ (merge_all \/ Len(non_rect_geos) > 1)

\* Lines 721-756: the geometries after joining.
merged_geos(merge, merge_all, non_rect_geos, joined) ==
    IF Merging(merge, merge_all, non_rect_geos)
    THEN SelectSeq(joined, LAMBDA g : ~g.degenerate)
    ELSE non_rect_geos

\* Lines 759-772: the bounding rectangle of each geometry.
bounded_geos(subdivide, geos) ==
    IF subdivide THEN geos
    ELSE MapSeq(geos, LAMBDA g : [g EXCEPT !.rectangular = TRUE])

\* The first of the apertures whose centre the geometry covers: the mutant of
\* C16.
exist_ap_covered(s, olds, g) ==
    LET found == {k \in 1..Len(olds) : s.sub[olds[k]].center \in Covers(g.center)}
    IN  IF found = {} THEN None ELSE olds[Min(found)]

\* Lines 780-784: the first of the apertures whose centre is that of the
\* geometry, None if there is none.
exist_ap(s, olds, g) ==
    LET found == {k \in 1..Len(olds) : s.sub[olds[k]].center = g.center}
    IN  IF found = {} THEN None ELSE olds[Min(found)]

\* Lines 778-791 from the i-th geometry on; the new apertures are appended to
\* s.result.
RECURSIVE MakeNewAps(_, _, _, _, _)
MakeNewAps(s, f, olds, geos, i) ==
    IF i >= Len(geos) THEN s
    ELSE LET g == geos[i + 1]
             old == exist_ap(s, olds, g)
             s1 == IF old = None
                   THEN ConstructShaped(s, MadeName(f, "RG", i), g.center,
                                        g.degenerate, g.rectangular, FALSE)
                   ELSE ConstructShaped(s, s.sub[old].name, g.center,
                                        g.degenerate, g.rectangular,
                                        s.sub[old].operable)
         IN  MakeNewAps([s1 EXCEPT !.result = Append(@, Len(s1.sub))],
                        f, olds, geos, i + 1)

\* Face.add_apertures.
RECURSIVE add_apertures(_, _, _, _)
add_apertures(s, f, aps, i) ==
    IF i > Len(aps) THEN s
    ELSE add_apertures(add_aperture(s, f, aps[i]), f, aps, i + 1)

\* Face.replace_apertures.
replace_apertures(s, f, aps) == add_apertures(remove_sub_faces(s, f), f, aps, 1)

\* A sliver that lies across both centres of Coords, smaller than a sub-face
\* at either of them.
Sliver == 3

\* Face._remove_overlapping_sub_faces: the sub-faces sorted by area, largest
\* first, and of those that overlap an earlier one only the earlier one kept.
\* A geometry that spans the others is the larger one, a sliver the smallest.
by_area(s, sfs) ==
    SelectSeq(sfs, LAMBDA o : s.sub[o].center \notin Coords \cup {Sliver})
        \o SelectSeq(sfs, LAMBDA o : s.sub[o].center \in Coords)
        \o SelectSeq(sfs, LAMBDA o : s.sub[o].center = Sliver)

Overlap(s, a, b) == Covers(s.sub[a].center) \cap Covers(s.sub[b].center) # {}

RECURSIVE KeepFirstOfGroups(_, _, _, _)
KeepFirstOfGroups(s, sorted, kept, i) ==
    IF i > Len(sorted) THEN kept
    ELSE IF \E k \in 1..(i - 1) : Overlap(s, sorted[k], sorted[i])
         THEN KeepFirstOfGroups(s, sorted, kept, i + 1)
         ELSE KeepFirstOfGroups(s, sorted, Append(kept, sorted[i]), i + 1)

\* Nothing is removed: the mutant of C29.
keep_overlapping_sub_faces(s, sfs) == by_area(s, sfs)

remove_overlapping_sub_faces(s, sfs) ==
    KeepFirstOfGroups(s, by_area(s, sfs), <<>>, 1)

\* Line 2206: sub_faces[0] of an empty list raises IndexError.
GroupingRaises(sfs) == sfs = <<>>

\* Lines 872-882 from the i-th strip of aperture ap on.
RECURSIVE MakeStrips(_, _, _, _)
MakeStrips(s, ap, n, i) ==
    IF i >= n THEN s
    ELSE LET s1 == ConstructShaped(s, [base |-> s.sub[ap].name, tag |-> "Glz", i |-> i],
                                   s.sub[ap].center, FALSE, TRUE, s.sub[ap].operable)
         IN  MakeStrips([s1 EXCEPT !.result = Append(@, Len(s1.sub))], ap, n, i + 1)

\* Lines 804-882 from the k-th of the apertures aps on; the apertures that
\* replace them are appended to s.result.
RECURSIVE Subdivide(_, _, _, _)
Subdivide(s, aps, strips, k) ==
    IF k > Len(aps) THEN s
    ELSE IF s.sub[aps[k]].rectangular
         THEN Subdivide([s EXCEPT !.result = Append(@, aps[k])], aps, strips, k + 1)
         ELSE Subdivide(MakeStrips(s, aps[k], strips[k], 0), aps, strips, k + 1)

\* Lines 710: nothing to be rectangularized.
\* What rectangularize_apertures returns with its apertures unchanged.
Unchanged == [changed |-> FALSE, old |-> <<>>, new |-> <<>>]

NothingToRectangularizeReset(s, f) ==
    [reset_boundary_condition(s, f, s.apertures[f]) EXCEPT !.result = Unchanged]

NothingToRectangularize(s, f) == [s EXCEPT !.result = Unchanged]

\* The apertures made at lines 775-791.
new_aps(s, f, subdivide, merge, merge_all, joined) ==
    LET olds == non_rect_aps(s, f, merge, merge_all)
        non_rect_geos == MapSeq(olds, LAMBDA o : GeometryOf(s, o))
        geos == bounded_geos(subdivide,
                             merged_geos(merge, merge_all, non_rect_geos, joined))
        edits_occurred == Merging(merge, merge_all, non_rect_geos) \/ ~subdivide
    IN  IF ~edits_occurred THEN [s EXCEPT !.result = olds]
        ELSE MakeNewAps([s EXCEPT !.result = <<>>], f, olds, geos, 0)

rectangularize_apertures(s, f, subdivide, merge, merge_all, joined, strips) ==
    LET rects == rect_aps(s, f, merge, merge_all)
        olds == non_rect_aps(s, f, merge, merge_all)
        s1 == reset_boundary_condition(s, f, rects)
        s2 == new_aps(s1, f, subdivide, merge, merge_all, joined)
        all_aps == remove_overlapping_sub_faces(s2, rects \o s2.result)
        s3 == Subdivide([s2 EXCEPT !.result = <<>>], s2.result, strips, 1)
    IN  IF s.apertures[f] = <<>> THEN [s EXCEPT !.result = Unchanged]
        ELSE IF olds = <<>> THEN NothingToRectangularize(s, f)
        ELSE IF ~subdivide /\ GroupingRaises(rects \o s2.result)
        THEN Raise([s2 EXCEPT !.result = [changed |-> TRUE, old |-> olds,
                                          new |-> s2.result]])
        ELSE IF ~subdivide
        THEN [add_apertures(remove_apertures(s2, f), f, all_aps, 1)
                 EXCEPT !.result = [changed |-> TRUE, old |-> olds, new |-> s2.result]]
        ELSE [add_apertures(remove_apertures(s3, f), f, rects \o s3.result, 1)
                 EXCEPT !.result = [changed |-> TRUE, old |-> olds, new |-> s2.result]]

----------------------------------------------------------------------------
\* Face.fix_invalid_sub_faces.  fixed are the centres of the polygons that the
\* geometry library leaves after trimming and union, and area_changed whether
\* their area differs from the original one by more than the tolerance.

\* Lines 1093-1105: the sub-faces whose polygon is not degenerate.
original_objs(s, f) ==
    SelectSeq(sub_faces(s, f), LAMBDA o : ~s.sub[o].degenerate)

\* Lines 1169-1174: the first original sub-face whose centre lies within the
\* bounding rectangle of the polygon, None if there is none.
orig_obj(s, originals, center) ==
    LET found == {k \in 1..Len(originals) :
                     s.sub[originals[k]].center \in Covers(center)}
    IN  IF found = {} THEN None ELSE originals[Min(found)]

\* orig_obj.duplicate() with the new geometry: a new object with the
\* identifier, the kind, the operable flag and the boundary condition of the
\* original.
duplicate(s, o, center) ==
    LET s1 == Construct(s, s.sub[o].kind, s.sub[o].name, center, FALSE)
    IN  [s1 EXCEPT !.sub[Len(s1.sub)].operable = s.sub[o].operable,
                   !.sub[Len(s1.sub)].adj = s.sub[o].adj]

\* Lines 1167-1186 from the i-th polygon on; the new sub-faces are appended to
\* s.result.
RECURSIVE Rebuild(_, _, _, _, _)
Rebuild(s, f, originals, fixed, i) ==
    IF i >= Len(fixed) \/ s.exc THEN s
    ELSE LET o == orig_obj(s, originals, fixed[i + 1])
             s1 == IF o = None
                   THEN Construct(s, "Aperture", MadeName(f, "", i),
                                  fixed[i + 1], FALSE)
                   ELSE duplicate(s, o, fixed[i + 1])
             n == Len(s1.sub)
             s2 == IF s1.sub[n].kind = "Aperture"
                   THEN add_aperture(s1, f, n) ELSE add_door(s1, f, n)
         IN  Rebuild([s2 EXCEPT !.result = Append(@, n)], f, originals, fixed, i + 1)

\* Line 1165: whether the sub-faces are rebuilt.
Edited(originals, fixed, area_changed) ==
    Len(fixed) # Len(originals) \/ area_changed

\* The source does not hold what Polygon2D.group_by_overlap does with an empty
\* list of polygons: it returns an empty list, or it raises (empty_raises).
fix_invalid_sub_faces(s, f, trim_with_parent, union_overlaps, fixed, area_changed, empty_raises) ==
    LET originals == original_objs(s, f)
        done == Rebuild([remove_sub_faces(s, f) EXCEPT !.result = <<>>],
                        f, originals, fixed, 0)
    IN  IF union_overlaps /\ fixed = <<>> /\ empty_raises
        THEN Raise([s EXCEPT !.result = [rebuilt |-> FALSE, old |-> originals,
                                         fixed |-> fixed, new |-> <<>>]])
        ELSE IF ~Edited(originals, fixed, area_changed)
        THEN [s EXCEPT !.result = [rebuilt |-> FALSE, old |-> originals,
                                   fixed |-> fixed, new |-> <<>>]]
        ELSE [done EXCEPT !.result = [rebuilt |-> TRUE, old |-> originals,
                                      fixed |-> fixed, new |-> done.result]]

\* Face.merge_neighboring_sub_faces; joined are the polygons that the
\* geometry library joins the originals into, and empty_raises whether it
\* raises when there is no polygon to join.
merge_neighboring_sub_faces(s, f, joined, area_changed, empty_raises) ==
    LET originals == original_objs(s, f)
        unchanged == [rebuilt |-> FALSE, old |-> originals,
                      fixed |-> joined, new |-> <<>>]
        done == Rebuild([remove_sub_faces(s, f) EXCEPT !.result = <<>>],
                        f, originals, joined, 0)
    IN  IF Len(sub_faces(s, f)) <= 1 THEN [s EXCEPT !.result = unchanged]
        ELSE IF originals = <<>> /\ empty_raises
        THEN Raise([s EXCEPT !.result = unchanged])
        ELSE IF ~Edited(originals, joined, area_changed)
        THEN [s EXCEPT !.result = unchanged]
        ELSE [done EXCEPT !.result = [rebuilt |-> TRUE, old |-> originals,
                                      fixed |-> joined, new |-> done.result]]

\* Lines 954-968 from the i-th aperture on: the aperture itself where the
\* library makes no offset polygon of it (None, or degenerate geometry), else
\* a duplicate with the offset geometry; appended to s.result.
RECURSIVE OffsetApertures(_, _, _, _)
OffsetApertures(s, aps, offsets, i) ==
    IF i > Len(aps) THEN s
    ELSE IF offsets[i]
         THEN LET s1 == duplicate(s, aps[i], s.sub[aps[i]].center)
              IN  OffsetApertures([s1 EXCEPT !.result = Append(@, Len(s1.sub))],
                                  aps, offsets, i + 1)
         ELSE OffsetApertures([s EXCEPT !.result = Append(@, aps[i])],
                              aps, offsets, i + 1)

\* Face.offset_aperture_edges.
offset_aperture_edges(s, f, offsets) ==
    LET s1 == OffsetApertures([s EXCEPT !.result = <<>>], s.apertures[f], offsets, 1)
    IN  add_apertures(remove_apertures(s1, f), f, s1.result, 1)

----------------------------------------------------------------------------
\* Face.to_dict and Face.from_dict.

\* A boundary condition that an extension defines: honeybee.boundarycondition
\* has no class of its name.
Extension == [name |-> "OtherSideTemperature", adj |-> None]

CoreBoundaryConditions == {"Outdoors", "Ground", "Adiabatic", "Surface"}

\* Aperture.to_dict / Door.to_dict.
sub_face_to_dict(s, o) ==
    [type |-> s.sub[o].kind, identifier |-> s.sub[o].name,
     geometry |-> [center |-> s.sub[o].center, degenerate |-> s.sub[o].degenerate,
                   rectangular |-> s.sub[o].rectangular],
     is_operable |-> s.sub[o].operable,
     boundary_condition |-> IF s.sub[o].adj = None
                            THEN [type |-> "Outdoors", other |-> None]
                            ELSE [type |-> "Surface", other |-> s.sub[o].adj]]

\* Aperture.from_dict / Door.from_dict.
sub_face_from_dict(s, data) ==
    LET s1 == Construct(s, data.type, data.identifier, data.geometry.center,
                        data.geometry.degenerate)
    IN  [s1 EXCEPT !.sub[Len(s1.sub)].rectangular = data.geometry.rectangular,
                   !.sub[Len(s1.sub)].operable = data.is_operable,
                   !.sub[Len(s1.sub)].adj = data.boundary_condition.other]

\* Lines 2134-2156.
to_dict(s, f) ==
    [type |-> "Face", identifier |-> f, geometry |-> s.geometry[f],
     face_type |-> s.type[f],
     boundary_condition |-> [type |-> s.boundary_condition[f].name,
                             other |-> s.boundary_condition[f].adj],
     apertures |-> MapSeq(s.apertures[f], LAMBDA o : sub_face_to_dict(s, o)),
     doors |-> MapSeq(s.doors[f], LAMBDA o : sub_face_to_dict(s, o))]

\* Lines 141-143: Face(identifier, geometry, face_type, outdoors) in a heap of
\* its own.
NewFace(data) ==
    [type |-> [f \in Faces |-> IF f = data.identifier THEN data.face_type ELSE "Wall"],
     boundary_condition |-> [f \in Faces |-> Outdoors],
     apertures |-> [f \in Faces |-> <<>>],
     doors |-> [f \in Faces |-> <<>>],
     punched_geometry |-> [f \in Faces |-> <<>>],
     geometry |-> [f \in Faces |-> IF f = data.identifier THEN data.geometry
                                   ELSE [degenerate |-> FALSE]],
     sub |-> <<>>, exc |-> FALSE, result |-> <<>>]

\* Lines 150-165 from the i-th dictionary on.
RECURSIVE AddFromDicts(_, _, _, _)
AddFromDicts(s, f, dicts, i) ==
    IF i > Len(dicts) THEN s
    ELSE LET s1 == sub_face_from_dict(s, dicts[i])
             s2 == IF dicts[i].type = "Aperture"
                   THEN add_aperture(s1, f, Len(s1.sub))
                   ELSE add_door(s1, f, Len(s1.sub))
         IN  AddFromDicts(s2, f, dicts, i + 1)

\* The boundary condition of the dictionary is never assigned: the mutant of
\* C19.
assign_boundary_condition_never(s, f, data) == s

\* Lines 168-173: the boundary condition is assigned unless no class of
\* honeybee.boundarycondition has its type.
assign_boundary_condition(s, f, data) ==
    IF s.exc THEN s
    ELSE IF data.type \notin CoreBoundaryConditions THEN s
    ELSE set_boundary_condition(s, f, [name |-> data.type, adj |-> data.other])

from_dict(data) ==
    LET f == data.identifier
        s1 == AddFromDicts(NewFace(data), f, data.apertures, 1)
        s2 == AddFromDicts(s1, f, data.doors, 1)
    IN  assign_boundary_condition(s2, f, data.boundary_condition)

\* Lines 135-138 from the i-th turn of the loop on: enumerate hands out the
\* i-th element of the list as it is by then; a hole is its number of vertices.
RECURSIVE PopInvalidHoles(_, _)
PopInvalidHoles(holes, i) ==
    IF i > Len(holes) THEN holes
    ELSE IF holes[i] < MinVertices
         THEN PopInvalidHoles(SubSeq(holes, 1, i - 1) \o SubSeq(holes, i + 1, Len(holes)),
                              i + 1)
         ELSE PopInvalidHoles(holes, i + 1)

\* Face.from_dict of a dictionary whose geometry has a list of holes; the
\* Face is returned in a heap of its own.
from_dict_with_holes(data, holes) ==
    LET face == from_dict(data)
    IN  [face EXCEPT !.result = [holes |-> PopInvalidHoles(holes, 1)]]

\* Face.from_dict(face.to_dict()).to_dict() beside face.to_dict().
round_trip(s, f) ==
    LET first == to_dict(s, f)
        face == from_dict(first)
    IN  IF face.exc THEN Raise([s EXCEPT !.result = [first |-> first, second |-> first]])
        ELSE [s EXCEPT !.result = [first |-> first, second |-> to_dict(face, f)]]

----------------------------------------------------------------------------
\* Validation checks. A string is a sequence of tokens, '' the empty one; a
\* result is a string (kind "str") or a list of records (kind "list").

NewLine == "\n"

RECURSIVE Join(_, _)
Join(msgs, i) ==
    IF i > Len(msgs) THEN <<>>
    ELSE IF i = Len(msgs) THEN msgs[i]
    ELSE msgs[i] \o <<NewLine>> \o Join(msgs, i + 1)

\* _validation_message_child: the message itself, or when detailed the record
\* that holds it with the error code and the element's identifier.
validation_message_child(s, msg, o, detailed, code) ==
    IF detailed
    THEN [code |-> code, message |-> msg, element_id |-> <<s.sub[o].name>>]
    ELSE msg

Returned(s, detailed, value) ==
    [s EXCEPT !.result = [kind |-> IF detailed THEN "list" ELSE "str",
                          value |-> value]]

\* Lines 1861-1874 and 1898-1911: objs are the Face's apertures or its doors,
\* invalid the sub-faces for which Face3D.is_sub_face answers False.
check_valid(s, f, objs, invalid, raise_exception, detailed0, text, code) ==
    LET detailed == IF raise_exception THEN FALSE ELSE detailed0
        msgs == MapSeq(SelectSeq(objs, LAMBDA o : o \in invalid),
                       LAMBDA o : validation_message_child(
                           s, <<[text |-> text, id |-> s.sub[o].name, face |-> f]>>,
                           o, detailed, code))
        full_msg == IF detailed THEN msgs ELSE Join(msgs, 1)
    IN  IF raise_exception /\ Len(msgs) # 0
        THEN Raise(Returned(s, detailed, full_msg))
        ELSE Returned(s, detailed, full_msg)

check_apertures_valid(s, f, invalid, raise_exception, detailed) ==
    check_valid(s, f, s.apertures[f], invalid, raise_exception, detailed,
                "Aperture is not coplanar or fully bounded by its parent Face",
                "000104")

check_doors_valid(s, f, invalid, raise_exception, detailed) ==
    check_valid(s, f, s.doors[f], invalid, raise_exception, detailed,
                "Door is not coplanar or fully bounded by its parent Face",
                "000104")

\* The empty messages are kept: the mutant of C20.
AllMessages(ap, dr) == <<ap, dr>>

\* Line 1834: [m for m in (ap, dr) if m != ''].
NonEmptyMessages(ap, dr) == SelectSeq(<<ap, dr>>, LAMBDA m : m # <<>>)

\* Lines 1831-1837.
check_sub_faces_valid(s, f, invalid, raise_exception, detailed0) ==
    LET detailed == IF raise_exception THEN FALSE ELSE detailed0
        ap == check_apertures_valid(s, f, invalid, FALSE, detailed).result.value
        dr == check_doors_valid(s, f, invalid, FALSE, detailed).result.value
        full_msgs == IF detailed THEN ap \o dr ELSE NonEmptyMessages(ap, dr)
    IN  IF raise_exception /\ Len(full_msgs) # 0
        THEN Raise(Returned(s, detailed, Join(full_msgs, 1)))
        ELSE Returned(s, detailed, IF detailed THEN full_msgs ELSE Join(full_msgs, 1))

\* Lines 2204-2226 from the i-th of the sorted sub-faces on: it joins the
\* first group that holds a sub-face it overlaps, or makes a group.
RECURSIVE GroupFrom(_, _, _, _)
GroupFrom(s, sorted, groups, i) ==
    IF i > Len(sorted) THEN groups
    ELSE LET Found(g) == \E k \in 1..Len(groups[g]) :
                            Overlap(s, sorted[i], groups[g][k])
             found == {g \in 1..Len(groups) : Found(g)}
         IN  IF found = {}
             THEN GroupFrom(s, sorted, Append(groups, <<sorted[i]>>), i + 1)
             ELSE GroupFrom(s, sorted,
                            [groups EXCEPT ![Min(found)] = Append(@, sorted[i])],
                            i + 1)

group_sub_faces_by_overlap(s, sfs) ==
    GroupFrom(s, by_area(s, sfs), <<<<by_area(s, sfs)[1]>>>>, 2)

\* Lines 1943-1953: the record of a group of overlapping sub-faces.
overlap_record(s, f, group) ==
    LET msg == <<[text |-> "contains Apertures and/or Doors that overlap",
                  id |-> f, face |-> f]>> \o <<NewLine>>
               \o MapSeq(group, LAMBDA o : s.sub[o].name)
        err_obj == validation_message_child(s, msg, group[1], TRUE, "000105")
    IN  [err_obj EXCEPT !.element_id = MapSeq(group, LAMBDA o : s.sub[o].name)]

\* Lines 1929-1956.
check_sub_faces_overlapping(s, f, raise_exception, detailed) ==
    IF Len(sub_faces(s, f)) = 0 THEN Returned(s, detailed, <<>>)
    ELSE LET sf_groups == group_sub_faces_by_overlap(s, sub_faces(s, f))
             base_msg == <<[text |-> "contains Apertures and/or Doors that overlap",
                            id |-> f, face |-> f]>>
         IN  IF \E g \in 1..Len(sf_groups) : Len(sf_groups[g]) # 1
             THEN IF raise_exception THEN Raise(Returned(s, FALSE, base_msg))
                  ELSE IF ~detailed THEN Returned(s, FALSE, base_msg)
                  ELSE Returned(s, TRUE,
                           MapSeq(SelectSeq(sf_groups, LAMBDA g : Len(g) # 1),
                                  LAMBDA g : overlap_record(s, f, g)))
             ELSE Returned(s, detailed, <<>>)

----------------------------------------------------------------------------
\* The edit commands of the command line (cli/edit.py). The heap is the Model
\* that Model.from_file reads; io tells which of the calls into code outside
\* this module raise (load, edit, write) and the tolerance of the Model.

IOs == [load : BOOLEAN, tolerance : Tolerances, edit : BOOLEAN, write : BOOLEAN]

\* A statement of the try block that raises when raises is true; nothing of
\* the block runs after an exception.
Step(s, raises) == IF s.exc \/ ~raises THEN s ELSE Raise(s)

\* isinstance(face.boundary_condition, Outdoors) and isinstance(face.type, Wall).
OutdoorWall(s, f) == s.boundary_condition[f].name = "Outdoors" /\ s.type[f] = "Wall"

\* What a command does to one outdoor wall; the shades are made by code
\* outside this module.
EditFace(s, f, edit) ==
    CASE edit.op = "windows-by-ratio" -> apertures_by_ratio(s, f, edit.ratio, edit.n)
      [] edit.op = "windows-by-ratio-rect" ->
            apertures_by_ratio_rectangle(s, f, edit.ratio, edit.n)
      [] OTHER -> Step(s, edit.raises)

\* for room in parsed_model.rooms: for face in room.faces, from Face f on.
RECURSIVE ForOutdoorWalls(_, _, _)
ForOutdoorWalls(s, f, edit) ==
    IF f \notin Faces \/ s.exc THEN s
    ELSE ForOutdoorWalls(IF OutdoorWall(s, f) THEN EditFace(s, f, edit) ELSE s,
                         f + 1, edit)

\* Every exception leaves with status 0: the mutant of C21.
exit_zero(s) == [s EXCEPT !.result = [status |-> 0]]

\* except Exception: sys.exit(1); else: sys.exit(0).
exit(s) == [s EXCEPT !.result = [status |-> IF s.exc THEN 1 ELSE 0]]

\* Lines 47-59.
convert_units(s, io) ==
    exit(Step(Step(Step(s, io.load), io.edit), io.write))

\* Lines 94-116; lines 257-277 have no assertion on the tolerance.
solve_adjacency(s, io) ==
    exit(Step(Step(Step(Step(s, io.load), io.tolerance = 0), io.edit), io.write))

extruded_border(s, io) ==
    exit(Step(Step(Step(s, io.load), io.edit), io.write))

\* Lines 138-158.
windows_by_ratio(s, io, ratio, n) ==
    LET s1 == Step(Step(s, io.load), io.tolerance = 0)
        s2 == ForOutdoorWalls(s1, 1, [op |-> "windows-by-ratio", ratio |-> ratio, n |-> n])
    IN  exit(Step(s2, io.write))

\* Lines 207-235; io.edit is parse_distance_string raising.
windows_by_ratio_rect(s, io, ratio, n) ==
    LET s1 == Step(Step(Step(s, io.load), io.tolerance = 0), io.edit)
        s2 == ForOutdoorWalls(s1, 1,
                  [op |-> "windows-by-ratio-rect", ratio |-> ratio, n |-> n])
    IN  exit(Step(s2, io.write))

\* Lines 314-348, 391-422 and 470-504: the shades are made by code outside
\* this module, for the outdoor walls only.
shade_command(s, io) ==
    LET s1 == Step(Step(s, io.load), io.tolerance = 0)
        s2 == ForOutdoorWalls(s1, 1, [op |-> "shade", raises |-> io.edit])
    IN  exit(Step(s2, io.write))

\* Lines 532-559: an exception of reset_resource_ids_in_dict is raised again
\* as an Exception inside the outer try.
reset_resource_ids(s, io) ==
    exit(Step(Step(Step(s, io.load), io.edit), io.write))

----------------------------------------------------------------------------
\* Transforms and clean-up.

\* Face.move / rotate / rotate_xy / reflect / scale: the Face geometry and
\* every sub-face are transformed (here: reflected across the middle of the
\* line of centres) and the cache is reset.
transform(s, f) ==
    [s EXCEPT !.sub = [o \in DOMAIN s.sub |->
                          IF o \in Range(sub_faces(s, f))
                          THEN [s.sub[o] EXCEPT !.center = 1 - @]
                          ELSE s.sub[o]],
              !.punched_geometry[f] = <<>>]

\* Face.remove_colinear_vertices.
remove_colinear_vertices(s, f) ==
    IF s.geometry[f].degenerate THEN Raise(s)
    ELSE [s EXCEPT !.punched_geometry[f] = <<>>]

\* Face.remove_degenerate_sub_faces: the degenerate sub-faces are popped from
\* the two lists, and nothing else is written.
SelectSeq2(s, seq) == SelectSeq(seq, LAMBDA o : ~s.sub[o].degenerate)

remove_degenerate_sub_faces(s, f) ==
    [s EXCEPT !.apertures[f] = SelectSeq2(s, @),
              !.doors[f] = SelectSeq2(s, @)]

----------------------------------------------------------------------------
\* The state after construction: two Faces made by Face(identifier, geometry,
\* type, boundary_condition), with no sub-faces and nothing cached.  Face 1 is
\* the Face the client edits; Face 2 is the other Face of set_adjacency.
Init ==
    /\ type = [f \in Faces |-> "Wall"]
    /\ boundary_condition = [f \in Faces |-> Outdoors]
    /\ apertures = [f \in Faces |-> <<>>]
    /\ doors = [f \in Faces |-> <<>>]
    /\ punched_geometry = [f \in Faces |-> <<>>]
    /\ \E d \in BOOLEAN :
          geometry = [f \in Faces |-> [degenerate |-> (f = 1 /\ d)]]
    /\ sub = <<>>
    /\ ret = [op |-> "init", face |-> None, other |-> None, num |-> 0,
              had |-> 0, raised |-> FALSE, result |-> <<>>]

\* A call that constructs n objects is taken while the bound leaves room.
Room(n, max) == Len(sub) + n <= max

\* One call by a client of each method.
SetType(f, value) == Call("type", f, None, 0, set_type(State, f, value))

SetBoundaryCondition(f, value) ==
    Call("boundary_condition", f, None, 0, set_boundary_condition(State, f, value))

GetPunchedGeometry(f) ==
    Call("punched_geometry", f, None, 0, get_punched_geometry(State, f))

AddAperture(f, center, degenerate) ==
    LET s1 == Construct(State, "Aperture", UserName(State), center, degenerate)
    IN  Call("add_aperture", f, None, 0, add_aperture(s1, f, Len(s1.sub)))

AddDoor(f, center, degenerate) ==
    LET s1 == Construct(State, "Door", UserName(State), center, degenerate)
    IN  Call("add_door", f, None, 0, add_door(s1, f, Len(s1.sub)))

RemoveApertures(f) == Call("remove_apertures", f, None, 0, remove_apertures(State, f))

RemoveDoors(f) == Call("remove_doors", f, None, 0, remove_doors(State, f))

RemoveSubFaces(f) == Call("remove_sub_faces", f, None, 0, remove_sub_faces(State, f))

SetAdjacency(f, g, tolerance) ==
    /\ f # g
    /\ Call("set_adjacency", f, g, tolerance, set_adjacency(State, f, g, tolerance))

AperturesByRatio(f, ratio, n) ==
    Call("apertures_by_ratio", f, None, ratio,
            apertures_by_ratio(State, f, ratio, n))

AperturesByRatioRectangle(f, ratio, n) ==
    Call("apertures_by_ratio_rectangle", f, None, ratio,
            apertures_by_ratio_rectangle(State, f, ratio, n))

AperturesByRatioGridded(f, ratio, n) ==
    Call("apertures_by_ratio_gridded", f, None, ratio,
            apertures_by_ratio_gridded(State, f, ratio, n))

AperturesByWidthHeightRectangle(f, height, width, separation, n) ==
    Call("apertures_by_width_height_rectangle", f, None,
         <<height, width, separation>>,
         apertures_by_width_height_rectangle(State, f, height, width, separation, n))

\* The client constructs an Aperture of a shape and adds it to Face f.
AddShapedAperture(f, center, degenerate, rectangular, operable) ==
    LET s1 == ConstructShaped(State, UserName(State), center, degenerate,
                              rectangular, operable)
    IN  Call("add_aperture", f, None, 0, add_aperture(s1, f, Len(s1.sub)))

RectangularizeApertures(f, subdivide, merge, merge_all, joined, strips) ==
    Call("rectangularize_apertures", f, None, [subdivide |-> subdivide],
         rectangularize_apertures(State, f, subdivide, merge, merge_all,
                                  joined, strips))

FixInvalidSubFaces(f, trim_with_parent, union_overlaps, fixed, area_changed, empty_raises) ==
    Call("fix_invalid_sub_faces", f, None, 0,
         fix_invalid_sub_faces(State, f, trim_with_parent, union_overlaps,
                               fixed, area_changed, empty_raises))

CheckArgs(invalid, raise_exception, detailed) ==
    [invalid |-> invalid, raise_exception |-> raise_exception, detailed |-> detailed]

CheckAperturesValid(f, invalid, raise_exception, detailed) ==
    Call("check_apertures_valid", f, None, CheckArgs(invalid, raise_exception, detailed),
         check_apertures_valid(State, f, invalid, raise_exception, detailed))

CheckDoorsValid(f, invalid, raise_exception, detailed) ==
    Call("check_doors_valid", f, None, CheckArgs(invalid, raise_exception, detailed),
         check_doors_valid(State, f, invalid, raise_exception, detailed))

CheckSubFacesValid(f, invalid, raise_exception, detailed) ==
    Call("check_sub_faces_valid", f, None, CheckArgs(invalid, raise_exception, detailed),
         check_sub_faces_valid(State, f, invalid, raise_exception, detailed))

CheckSubFacesOverlapping(f, raise_exception, detailed) ==
    Call("check_sub_faces_overlapping", f, None, CheckArgs({}, raise_exception, detailed),
         check_sub_faces_overlapping(State, f, raise_exception, detailed))

CliArgs(io, ratio) == [io |-> io, ratio |-> ratio]

ConvertUnits(io) == Call("convert-units", 1, None, CliArgs(io, 0), convert_units(State, io))

SolveAdjacency(io) ==
    Call("solve-adjacency", 1, None, CliArgs(io, 0), solve_adjacency(State, io))

WindowsByRatio(io, ratio, n) ==
    Call("windows-by-ratio", 1, None, CliArgs(io, ratio),
         windows_by_ratio(State, io, ratio, n))

WindowsByRatioRect(io, ratio, n) ==
    Call("windows-by-ratio-rect", 1, None, CliArgs(io, ratio),
         windows_by_ratio_rect(State, io, ratio, n))

ExtrudedBorder(io) ==
    Call("extruded-border", 1, None, CliArgs(io, 0), extruded_border(State, io))

ShadeCommand(op, io) == Call(op, 1, None, CliArgs(io, 0), shade_command(State, io))

ResetResourceIds(io) ==
    Call("reset-resource-ids", 1, None, CliArgs(io, 0), reset_resource_ids(State, io))

\* Face.from_dict of the dictionary of Face f with the holes put in its
\* geometry; the Face read is not kept.
FromDict(f, holes) ==
    LET face == from_dict_with_holes(to_dict(State, f), holes)
    IN  Call("from_dict", f, None, holes,
             [State EXCEPT !.exc = face.exc, !.result = face.result])

ReplaceApertures(f, center) ==
    LET s1 == Construct(State, "Aperture", UserName(State), center, FALSE)
    IN  Call("replace_apertures", f, None, 0, replace_apertures(s1, f, <<Len(s1.sub)>>))

MergeNeighboringSubFaces(f, joined, area_changed, empty_raises) ==
    Call("merge_neighboring_sub_faces", f, None, 0,
         merge_neighboring_sub_faces(State, f, joined, area_changed, empty_raises))

OffsetApertureEdges(f, offsets) ==
    Call("offset_aperture_edges", f, None, 0, offset_aperture_edges(State, f, offsets))

RoundTrip(f) == Call("round_trip", f, None, 0, round_trip(State, f))

Transform(f) == Call("transform", f, None, 0, transform(State, f))

RemoveColinearVertices(f) ==
    Call("remove_colinear_vertices", f, None, 0, remove_colinear_vertices(State, f))

RemoveDegenerateSubFaces(f) ==
    Call("remove_degenerate_sub_faces", f, None, 0,
         remove_degenerate_sub_faces(State, f))

----------------------------------------------------------------------------
\* Spec: the client edits Face 1 through the methods that write its type, its
\* boundary condition or its lists of sub-faces; Face 2 is the other Face of
\* set_adjacency.  No method of this specification reads the centre of a
\* sub-face that the client made, or whether it is degenerate.
Next ==
    \/ \E value \in FaceTypes : SetType(1, value)
    \/ \E value \in BoundaryConditions(1) : SetBoundaryCondition(1, value)
    \/ Room(1, MaxAlloc) /\ AddAperture(1, 0, FALSE)
    \/ Room(1, MaxAlloc) /\ AddDoor(1, 0, FALSE)
    \/ RemoveApertures(1)
    \/ RemoveDoors(1)
    \/ RemoveSubFaces(1)
    \/ \E ratio \in Ratios, n \in 1..MaxGen :
          Room(n, MaxAlloc) /\ AperturesByRatio(1, ratio, n)
    \/ \E ratio \in Ratios, n \in 1..MaxGen :
          Room(n, MaxAlloc) /\ AperturesByRatioRectangle(1, ratio, n)
    \/ \E ratio \in Ratios, n \in 1..MaxGen :
          Room(n, MaxAlloc) /\ AperturesByRatioGridded(1, ratio, n)
    \/ \E height, width, separation \in Dimensions, n \in 1..MaxGen :
          /\ Room(n, MaxAlloc)
          /\ AperturesByWidthHeightRectangle(1, height, width, separation, n)
    \/ \E f, g \in Faces, tolerance \in Tolerances : SetAdjacency(f, g, tolerance)

Spec == Init /\ [][Next]_vars

\* SpecPunched: the client edits the sub-faces and the geometry of Face 1 and
\* reads its punched geometry.
NextPunched ==
    \/ GetPunchedGeometry(1)
    \/ \E c \in Coords, d \in BOOLEAN : Room(1, MaxAlloc) /\ AddAperture(1, c, d)
    \/ \E c \in Coords, d \in BOOLEAN : Room(1, MaxAlloc) /\ AddDoor(1, c, d)
    \/ RemoveApertures(1)
    \/ RemoveDoors(1)
    \/ RemoveSubFaces(1)
    \/ Transform(1)
    \/ RemoveColinearVertices(1)
    \/ RemoveDegenerateSubFaces(1)

SpecPunched == Init /\ [][NextPunched]_vars

\* SpecAdj: the client adds sub-faces to the two Faces and sets them adjacent.
NextAdj ==
    \/ \E f \in Faces, c \in Coords : Room(1, MaxAllocAdj) /\ AddAperture(f, c, FALSE)
    \/ \E f \in Faces, c \in Coords : Room(1, MaxAllocAdj) /\ AddDoor(f, c, FALSE)
    \/ \E f, g \in Faces, tolerance \in Tolerances : SetAdjacency(f, g, tolerance)

SpecAdj == Init /\ [][NextAdj]_vars

----------------------------------------------------------------------------
\* SpecRect: the client gives Face 1 apertures of the three shapes, sets its
\* boundary condition and rectangularizes its apertures.
Shapes ==
    {[degenerate |-> FALSE, rectangular |-> TRUE],
     [degenerate |-> FALSE, rectangular |-> FALSE],
     [degenerate |-> TRUE, rectangular |-> FALSE]}

\* The number of apertures made at lines 775-791 of a call.
NewCount(f, subdivide, merge, merge_all, joined) ==
    Len(new_aps(State, f, subdivide, merge, merge_all, joined).result)

\* What the geometry library may return to a call: joined geometries, no more
\* than the geometries to join, if the call joins, and numbers of strips if it
\* subdivides.
JoinedChoices(f, merge, merge_all) ==
    LET olds == non_rect_aps(State, f, merge, merge_all)
    IN  IF Merging(merge, merge_all, olds)
        THEN SeqsUpTo(Geometries, IF Len(olds) < MaxGen THEN Len(olds) ELSE MaxGen)
        ELSE {<<>>}

StripChoices(f, subdivide, merge, merge_all, joined) ==
    [1..NewCount(f, subdivide, merge, merge_all, joined)
        -> IF subdivide THEN StripCounts ELSE {0}]

Rectangularize(f, max, most) ==
    \E subdivide, merge, merge_all \in BOOLEAN :
       \E joined \in JoinedChoices(f, merge, merge_all) :
          \E strips \in StripChoices(f, subdivide, merge, merge_all, joined) :
             /\ Len(sub) <= max
             /\ RectangularizeApertures(f, subdivide, merge, merge_all,
                                        joined, strips)
             /\ Len(sub') <= most

NextRect ==
    \/ \E c \in Coords, shape \in Shapes :
          /\ Room(1, MaxAllocRect)
          /\ AddShapedAperture(1, c, shape.degenerate, shape.rectangular, TRUE)
    \/ \E value \in {Outdoors, Surface(2)} : SetBoundaryCondition(1, value)
    \/ Rectangularize(1, MaxAllocRect, MaxAllocRect + MaxGen * MaxGen)

SpecRect == Init /\ [][NextRect]_vars

\* SpecRectAdj: Face 1 has apertures, rectangles or not, and a door, and Face 2
\* is made its neighbour before the apertures of Face 1 are rectangularized.
NextRectAdj ==
    \/ \E rectangular \in BOOLEAN :
          /\ Room(1, MaxAllocRectAdj) /\ Len(apertures[1]) < MaxPerFace
          /\ AddShapedAperture(1, 0, FALSE, rectangular, TRUE)
    \/ /\ Room(1, MaxAllocRectAdj) /\ Len(apertures[2]) < MaxPerFace
       /\ AddAperture(2, 0, FALSE)
    \/ \E f \in Faces :
          /\ Room(1, MaxAllocRectAdj) /\ Len(doors[f]) < MaxPerFace
          /\ AddDoor(f, 0, FALSE)
    \/ SetAdjacency(1, 2, 1)
    \/ Rectangularize(1, MaxAllocRectAdj, MaxAllocRectAdj + MaxPerFace)

SpecRectAdj == Init /\ [][NextRectAdj]_vars

\* SpecFix: the client gives Face 1 apertures and doors, sets its boundary
\* condition and fixes its sub-faces.
\* What the geometry library may leave of the polygons of Face f: the polygons
\* as they were if nothing is asked of it or if there are none, else polygons
\* about any centres.
FixedChoices(f, trim_with_parent, union_overlaps) ==
    IF (~trim_with_parent /\ ~union_overlaps) \/ original_objs(State, f) = <<>>
    THEN {MapSeq(original_objs(State, f), LAMBDA o : sub[o].center)}
    ELSE SeqsUpTo(GeoCenters, MaxGen)

NextFix ==
    \/ \E c \in Coords, degenerate \in BOOLEAN :
          Room(1, MaxAllocFix) /\ AddAperture(1, c, degenerate)
    \/ \E c \in Coords : Room(1, MaxAllocFix) /\ AddDoor(1, c, FALSE)
    \/ \E value \in {Outdoors, Surface(2)} : SetBoundaryCondition(1, value)
    \/ \E trim_with_parent, union_overlaps, empty_raises \in BOOLEAN :
          \E fixed \in FixedChoices(1, trim_with_parent, union_overlaps) :
             \E area_changed \in
                   IF ~trim_with_parent /\ ~union_overlaps THEN {FALSE} ELSE BOOLEAN :
                /\ Len(sub) <= MaxAllocFix
                /\ FixInvalidSubFaces(1, trim_with_parent, union_overlaps,
                                      fixed, area_changed, empty_raises)

SpecFix == Init /\ [][NextFix]_vars

\* SpecDict: the client sets the type and the boundary condition of Face 1,
\* gives it apertures and doors, makes Face 2 its neighbour and writes Face 1
\* to a dictionary and back.
NextDict ==
    \/ \E value \in FaceTypes : SetType(1, value)
    \/ \E value \in BoundaryConditions(1) \cup {Extension} :
          SetBoundaryCondition(1, value)
    \/ \E c \in Coords :
          /\ Room(1, MaxAllocDict) /\ Len(apertures[1]) < MaxPerFace
          /\ AddShapedAperture(1, c, FALSE, c = 0, c = 1)
    \/ /\ Room(1, MaxAllocDict) /\ Len(apertures[2]) < MaxPerFace
       /\ AddAperture(2, 0, FALSE)
    \/ \E f \in Faces :
          /\ Room(1, MaxAllocDict) /\ Len(doors[f]) < MaxPerFace
          /\ AddDoor(f, 0, FALSE)
    \/ SetAdjacency(1, 2, 1)
    \/ RoundTrip(1)

SpecDict == Init /\ [][NextDict]_vars

\* SpecCheck: the client gives Face 1 apertures and doors and runs the
\* validation checks on it; the geometry library finds any of the sub-faces
\* out of the plane or the boundary of the Face.
NextCheck ==
    \/ \E c \in Coords : Room(1, MaxAllocCheck) /\ AddAperture(1, c, FALSE)
    \/ \E c \in Coords : Room(1, MaxAllocCheck) /\ AddDoor(1, c, FALSE)
    \/ \E invalid \in SUBSET (1..Len(sub)), raise_exception, detailed \in BOOLEAN :
          \/ CheckAperturesValid(1, invalid, raise_exception, detailed)
          \/ CheckDoorsValid(1, invalid, raise_exception, detailed)
          \/ CheckSubFacesValid(1, invalid, raise_exception, detailed)
    \/ \E raise_exception, detailed \in BOOLEAN :
          CheckSubFacesOverlapping(1, raise_exception, detailed)

SpecCheck == Init /\ [][NextCheck]_vars

\* SpecCli: a Model of two Faces is prepared, and edit commands are run on it.
NextCli ==
    \/ \E f \in Faces, value \in FaceTypes : SetType(f, value)
    \/ \E value \in {Outdoors, Ground} : SetBoundaryCondition(1, value)
    \/ Room(1, MaxAllocCli) /\ AddDoor(1, 0, FALSE)
    \/ \E io \in IOs :
          \/ ConvertUnits(io)
          \/ SolveAdjacency(io)
          \/ ExtrudedBorder(io)
          \/ \E op \in {"overhang", "louvers-by-count", "louvers-by-spacing"} :
                ShadeCommand(op, io)
          \/ ResetResourceIds(io)
    \/ \E io \in IOs, ratio \in Ratios :
          /\ Room(Cardinality(Faces), MaxAllocCli)
          /\ \/ WindowsByRatio(io, ratio, 1)
             \/ WindowsByRatioRect(io, ratio, 1)

SpecCli == Init /\ [][NextCli]_vars

\* SpecAdd: the client sets the type and the boundary condition of Face 1,
\* reads its punched geometry and adds apertures and doors to it.
NextAdd ==
    \/ \E value \in FaceTypes : SetType(1, value)
    \/ \E value \in BoundaryConditions(1) : SetBoundaryCondition(1, value)
    \/ GetPunchedGeometry(1)
    \/ \E c \in Coords : Room(1, MaxAlloc) /\ AddAperture(1, c, FALSE)
    \/ \E c \in Coords : Room(1, MaxAlloc) /\ AddDoor(1, c, FALSE)

SpecAdd == Init /\ [][NextAdd]_vars

\* SpecHoles: dictionaries of Face 1 with holes of two or three vertices in
\* the geometry are read.
NextHoles == \E holes \in SeqsUpTo(HoleSizes, MaxHoles) : FromDict(1, holes)

SpecHoles == Init /\ [][NextHoles]_vars

\* SpecOwner: the client adds sub-faces to Face 1, removes them and replaces
\* them.
NextOwner ==
    \/ \E c \in Coords, d \in BOOLEAN : Room(1, MaxAlloc) /\ AddAperture(1, c, d)
    \/ \E c \in Coords, d \in BOOLEAN : Room(1, MaxAlloc) /\ AddDoor(1, c, d)
    \/ RemoveApertures(1)
    \/ RemoveDoors(1)
    \/ RemoveSubFaces(1)
    \/ \E c \in Coords : Room(1, MaxAlloc) /\ ReplaceApertures(1, c)
    \/ RemoveDegenerateSubFaces(1)

SpecOwner == Init /\ [][NextOwner]_vars

\* SpecOverlap: the client gives Face 1 apertures and doors, slivers across
\* the others among them, and checks whether they overlap.
NextOverlap ==
    \/ \E c \in Coords \cup {Sliver} : Room(1, MaxAllocOverlap) /\ AddAperture(1, c, FALSE)
    \/ \E c \in Coords : Room(1, MaxAllocOverlap) /\ AddDoor(1, c, FALSE)
    \/ \E raise_exception, detailed \in BOOLEAN :
          CheckSubFacesOverlapping(1, raise_exception, detailed)

SpecOverlap == Init /\ [][NextOverlap]_vars

\* SpecRepair: the client gives Face 1 apertures and doors, sets its boundary
\* condition and runs the three operations that rebuild its sub-faces.
NextRepair ==
    \/ \E c \in Coords, degenerate \in BOOLEAN :
          Room(1, MaxAllocRepair) /\ AddAperture(1, c, degenerate)
    \/ \E c \in Coords : Room(1, MaxAllocRepair) /\ AddDoor(1, c, FALSE)
    \/ \E value \in {Outdoors, Surface(2)} : SetBoundaryCondition(1, value)
    \/ \E empty_raises \in BOOLEAN :
          \E fixed \in FixedChoices(1, TRUE, TRUE) :
             \E area_changed \in BOOLEAN :
                /\ Len(sub) <= MaxAllocRepair
                /\ \/ FixInvalidSubFaces(1, TRUE, TRUE, fixed, area_changed, empty_raises)
                   \/ MergeNeighboringSubFaces(1, fixed, area_changed, empty_raises)
    \/ \E offsets \in [1..Len(apertures[1]) -> BOOLEAN] :
          /\ Len(sub) <= MaxAllocRepair
          /\ OffsetApertureEdges(1, offsets)

SpecRepair == Init /\ [][NextRepair]_vars

\* ---------------------------------------------------------------------
\* The row merging of rectangularize_apertures in subdivision mode: the
\* cells of the grid over one aperture are grouped into rows, each row is
\* reduced to its minimum and maximum corner, the rows are sorted by the x
\* of their minimum and consecutive rows of the same extent are merged
\* into strips.  Indices are those of Python, from 0.
\* ---------------------------------------------------------------------

\* Coordinates of the corners of the grid cells, and the side of one cell.
GridXs == {0, 1, 2}
GridYs == {0, 1, 2}
CellSide == 1

Point2Ds == [x : GridXs \cup {x + CellSide : x \in GridXs}, y : GridYs]

\* The row groups of one grid: the keys (x, start_y) of the dictionary
\* they are collected in are distinct.
RowGroups ==
    {g \in [min : Point2Ds, max : Point2Ds] :
        /\ g.min.x \in GridXs
        /\ g.max.x = g.min.x + CellSide
        /\ g.min.y < g.max.y}

GroupLists ==
    {groups \in SeqsUpTo(RowGroups, MaxRows) :
        /\ groups # <<>>
        /\ \A i, j \in 1..Len(groups) :
              i # j => groups[i].min # groups[j].min}

At(groups, i) == groups[i + 1]

abs(n) == IF n < 0 THEN -n ELSE n

RECURSIVE sort_by_min_x(_)
sort_by_min_x(groups) ==
    IF groups = <<>> THEN <<>>
    ELSE LET group == Head(groups)
             rest == sort_by_min_x(Tail(groups))
         IN  SelectSeq(rest, LAMBDA r : r.min.x < group.min.x)
                 \o <<group>>
                 \o SelectSeq(rest, LAMBDA r : r.min.x >= group.min.x)

can_merge(group, next_group, tolerance) ==
    /\ abs(group.min.y - next_group.min.y) <= tolerance
    /\ abs(group.max.y - next_group.max.y) <= tolerance
    /\ abs(next_group.min.x - group.max.x) <= tolerance

\* _get_last_row from the iteration count of its loop on: the index of the
\* last row that merges with the start row, or the exception raised when
\* the row after the last one of the list is read.
RECURSIVE get_last_row(_, _, _, _)
get_last_row(groups, start, count, tolerance) ==
    IF count >= Len(groups) - start
    THEN IF count = 0
         THEN [raised |-> "UnboundLocalError", row |-> 0]
         ELSE [raised |-> "", row |-> start + (count - 1) + 1]
    ELSE IF count + start + 1 >= Len(groups)
    THEN [raised |-> "IndexError", row |-> 0]
    ELSE IF can_merge(At(groups, count + start),
                      At(groups, count + start + 1), tolerance)
    THEN get_last_row(groups, start, count + 1, tolerance)
    ELSE [raised |-> "", row |-> start + count]

same_start_row(start_row, last_row) == last_row

next_start_row(start_row, last_row) ==
    IF last_row = start_row THEN start_row + 1 ELSE last_row + 1

\* The while loop from one test of its condition on.  runs holds, for each
\* merged group, the indices of its first and last row; steps counts the
\* iterations left before the loop is given up as not terminating.
RECURSIVE MergeLoop(_, _, _, _, _, _, _)
MergeLoop(sorted_groups, start_row, last_row, merged_groups, runs, steps, tolerance) ==
    LET out(terminated, exc, merged, rs) ==
            [sorted_groups |-> sorted_groups, merged_groups |-> merged,
             runs |-> rs, terminated |-> terminated, exc |-> exc]
        got == get_last_row(sorted_groups, start_row, 0, tolerance)
        end == Len(sorted_groups) - 1
    IN  IF ~(last_row < Len(sorted_groups))
        THEN out(TRUE, FALSE, merged_groups, runs)
        ELSE IF steps = 0
        THEN out(FALSE, FALSE, merged_groups, runs)
        ELSE IF got.raised = "IndexError"
        THEN out(TRUE, FALSE,
                 Append(merged_groups,
                        [min |-> At(sorted_groups, start_row).min,
                         max |-> At(sorted_groups, end).max]),
                 Append(runs, <<start_row, end>>))
        ELSE IF got.raised # ""
        THEN out(TRUE, TRUE, merged_groups, runs)
        ELSE MergeLoop(sorted_groups, next_start_row(start_row, got.row), got.row,
                       Append(merged_groups,
                              [min |-> At(sorted_groups, start_row).min,
                               max |-> At(sorted_groups, got.row).max]),
                       Append(runs, <<start_row, got.row>>),
                       steps - 1, tolerance)

\* The loop gives up after more iterations than there are rows.
merge_rows(groups, tolerance) ==
    MergeLoop(sort_by_min_x(groups), 0, -1, <<>>, <<>>, Len(groups) + 1, tolerance)

MergeRows(f, groups, tolerance) ==
    LET merged == merge_rows(groups, tolerance)
    IN  Call("merge_rows", f, None, tolerance,
             [State EXCEPT !.exc = merged.exc, !.result = merged])

\* SpecRows: the rows of the grid over one aperture of Face 1 are merged,
\* once.
NextRows ==
    \E groups \in GroupLists, tolerance \in Tolerances :
       ret.op # "merge_rows" /\ MergeRows(1, groups, tolerance)

SpecRows == Init /\ [][NextRows]_vars

C2_NoAirBoundaryWithSubFaces ==
    \A f \in Faces : has_sub_faces(State, f) => type[f] # "AirBoundary"

\* C3: whenever a punched geometry is cached, it is the boundary with holes for
\* exactly the sub-faces the Face holds now, so that reading it never yields a
\* value cached before the last mutation.
C3_PunchedGeometryNeverStale ==
    \A f \in Faces :
        punched_geometry[f] # <<>> => punched_geometry[f] = <<Punched(State, f)>>

\* C4: when set_adjacency raises, neither Face's boundary condition nor any
\* sub-face's adjacency pairing differs from what it was before the call.
C4_RaisedAdjacencyChangesNothing ==
    [][(ret'.op = "set_adjacency" /\ ret'.raised)
          => /\ boundary_condition' = boundary_condition
             /\ \A o \in DOMAIN sub : sub'[o].adj = sub[o].adj]_vars

\* Every sub-face in list mine has a counterpart in list others whose centre is
\* within the tolerance.
HasCounterparts(mine, others, tolerance) ==
    \A a \in Range(mine) : \E b \in Range(others) :
        Dist(sub[a].center, sub[b].center) <= tolerance

\* C5: set_adjacency between two Faces with as many apertures and as many doors
\* as each other, where every sub-face has a counterpart on the other Face with
\* its centre within the tolerance, returns without raising and leaves each
\* Face with a Surface boundary condition that names the other Face.
C5_MatchingFacesBecomeAdjacent ==
    [][LET f == ret'.face
           g == ret'.other
           tolerance == ret'.num
       IN  (/\ ret'.op = "set_adjacency"
            /\ Len(apertures[f]) = Len(apertures[g])
            /\ Len(doors[f]) = Len(doors[g])
            /\ HasCounterparts(apertures[f], apertures[g], tolerance)
            /\ HasCounterparts(apertures[g], apertures[f], tolerance)
            /\ HasCounterparts(doors[f], doors[g], tolerance)
            /\ HasCounterparts(doors[g], doors[f], tolerance))
               => /\ ~ret'.raised
                  /\ boundary_condition'[f] = Surface(g)
                  /\ boundary_condition'[g] = Surface(f)]_vars

\* Two Faces that each hold an aperture and a door have been set adjacent.
C5_Witness ==
    /\ ret.op = "set_adjacency" /\ ~ret.raised
    /\ Len(apertures[ret.face]) >= 1 /\ Len(doors[ret.face]) >= 1
    /\ boundary_condition[ret.face] = Surface(ret.other)
    /\ boundary_condition[ret.other] = Surface(ret.face)

\* C6: set_adjacency raises whenever the two Faces differ in the number of
\* their apertures or in the number of their doors, for every tolerance and
\* all centres of the sub-faces.
C6_CountMismatchRaises ==
    [][(/\ ret'.op = "set_adjacency"
        /\ \/ Len(apertures[ret'.face]) # Len(apertures[ret'.other])
           \/ Len(doors[ret'.face]) # Len(doors[ret'.other]))
           => ret'.raised]_vars

\* set_adjacency has raised on two Faces with as many apertures as each other,
\* of which only the other Face holds a door.
C6_Witness ==
    /\ ret.op = "set_adjacency" /\ ret.raised
    /\ Len(apertures[ret.face]) = Len(apertures[ret.other])
    /\ Len(doors[ret.face]) = 0 /\ Len(doors[ret.other]) = 1

\* The pairs that a successful set_adjacency returned for list mine of its
\* Face and list others of the other Face.
Nearest(pairs, others, tolerance) ==
    \A i \in 1..Len(pairs) : \A b \in Range(others) :
        Dist(sub[pairs[i][1]].center, sub[b].center) <= tolerance
            => Dist(sub[pairs[i][1]].center, sub[pairs[i][2]].center)
                   <= Dist(sub[pairs[i][1]].center, sub[b].center)

FirstWithinTolerance(pairs, mine, others, tolerance) ==
    /\ Len(pairs) = Len(mine)
    /\ \A i \in 1..Len(mine) :
          /\ pairs[i][1] = mine[i]
          /\ \E j \in 1..Len(others) :
                /\ pairs[i][2] = others[j]
                /\ Dist(sub[mine[i]].center, sub[others[j]].center) <= tolerance
                /\ \A k \in 1..(j - 1) :
                      Dist(sub[mine[i]].center, sub[others[k]].center) > tolerance

\* C7 as stated: when set_adjacency succeeds, each aperture and each door of
\* the first Face is paired with the sub-face of the other Face whose centre
\* is nearest to its own among those within the tolerance.
C7_PairedWithNearest ==
    (ret.op = "set_adjacency" /\ ~ret.raised)
        => /\ Nearest(ret.result.adjacent_apertures,
                      apertures[ret.other], ret.num)
           /\ Nearest(ret.result.adjacent_doors, doors[ret.other], ret.num)

\* C7 as amended: when set_adjacency succeeds, each aperture and each door of
\* the first Face is paired with the first sub-face, in the order of the other
\* Face's list, whose centre is within the tolerance of its own.
C7_PairedWithFirstWithinTolerance ==
    (ret.op = "set_adjacency" /\ ~ret.raised)
        => /\ FirstWithinTolerance(ret.result.adjacent_apertures,
                  apertures[ret.face], apertures[ret.other], ret.num)
           /\ FirstWithinTolerance(ret.result.adjacent_doors,
                  doors[ret.face], doors[ret.other], ret.num)

\* set_adjacency has succeeded and paired an aperture with a counterpart that
\* is within the tolerance while a later one in the list is nearer.
C7_Witness ==
    /\ ret.op = "set_adjacency" /\ ~ret.raised
    /\ \E i \in 1..Len(ret.result.adjacent_apertures) :
          \E b \in Range(apertures[ret.other]) :
              Dist(sub[ret.result.adjacent_apertures[i][1]].center, sub[b].center)
                  < Dist(sub[ret.result.adjacent_apertures[i][1]].center,
                         sub[ret.result.adjacent_apertures[i][2]].center)

\* The three builders that generate apertures from a ratio.
BuilderOps ==
    {"apertures_by_ratio", "apertures_by_ratio_rectangle",
     "apertures_by_ratio_gridded"}

\* C8: whenever apertures_by_ratio, apertures_by_ratio_rectangle or
\* apertures_by_ratio_gridded returns normally, the Face holds none of the
\* apertures and doors it held before the call: it holds no doors, and its
\* apertures are objects constructed by the call, the i-th of them named
\* <faceID>_Glz<i>; with ratio 0 the Face holds no sub-faces at all.
C8_BuildersReplaceSubFaces ==
    [][(ret'.op \in BuilderOps /\ ~ret'.raised)
          => LET f == ret'.face
             IN  /\ doors'[f] = <<>>
                 /\ Range(apertures'[f]) \cap
                        (Range(apertures[f]) \cup Range(doors[f])) = {}
                 /\ \A i \in 1..Len(apertures'[f]) :
                       /\ apertures'[f][i] \notin DOMAIN sub
                       /\ sub'[apertures'[f][i]].kind = "Aperture"
                       /\ sub'[apertures'[f][i]].name = [face |-> f, tag |-> "Glz", i |-> i - 1]
                 /\ (ret'.num = 0 => apertures'[f] = <<>>)]_vars

\* A builder has returned normally on a Face that held sub-faces before the
\* call and holds generated apertures after it.
C8_Witness ==
    /\ ret.op \in BuilderOps /\ ~ret.raised
    /\ ret.had > 0 /\ ret.num > 0
    /\ apertures[ret.face] # <<>>

\* C10: apertures_by_ratio and apertures_by_ratio_gridded raise for every ratio
\* outside [0, 1) and apertures_by_ratio_rectangle raises for every ratio
\* outside [0, 0.95] (ratios in hundredths); a builder call that raises, for
\* its ratio or because the Face cannot accept sub-faces, leaves the apertures
\* and the doors of the Face as they were.
C10_BuildersRejectBadRatio ==
    [][ret'.op \in BuilderOps
          => /\ (/\ ret'.op \in {"apertures_by_ratio", "apertures_by_ratio_gridded"}
                 /\ (ret'.num < 0 \/ ret'.num >= 100)) => ret'.raised
             /\ (/\ ret'.op = "apertures_by_ratio_rectangle"
                 /\ (ret'.num < 0 \/ ret'.num > 95)) => ret'.raised
             /\ ret'.raised => /\ apertures' = apertures
                               /\ doors' = doors
                               /\ sub' = sub]_vars

\* apertures_by_ratio has raised for a ratio of 1 on a Face that holds
\* sub-faces.
C10_Witness ==
    /\ ret.op = "apertures_by_ratio" /\ ret.raised
    /\ ret.num = 100 /\ ret.had > 0
    /\ has_sub_faces(State, ret.face)

\* The four builders of sub-faces, and a call of one of them with a valid
\* ratio other than 0, or with valid dimensions other than 0.
AllBuilderOps == BuilderOps \cup {"apertures_by_width_height_rectangle"}

ValidNonZeroCall(r) ==
    \/ r.op \in {"apertures_by_ratio", "apertures_by_ratio_gridded"}
          /\ 0 < r.num /\ r.num < 100
    \/ r.op = "apertures_by_ratio_rectangle" /\ 0 < r.num /\ r.num <= 95
    \/ r.op = "apertures_by_width_height_rectangle"
          /\ \A i \in 1..3 : r.num[i] > 0

\* C11 as stated: on a degenerate Face with an Outdoors boundary condition,
\* each of the four builders, called with a valid ratio other than 0 or with
\* valid dimensions other than 0, returns without raising and leaves the Face
\* with no sub-faces.
C11_DegenerateFaceSkipped ==
    [][(/\ ret'.op \in AllBuilderOps
        /\ ValidNonZeroCall(ret')
        /\ geometry[ret'.face].degenerate
        /\ boundary_condition[ret'.face] = Outdoors)
           => /\ ~ret'.raised
              /\ apertures'[ret'.face] = <<>>
              /\ doors'[ret'.face] = <<>>]_vars

\* C11 as amended: the same of a degenerate Face with an Outdoors boundary
\* condition whose type is not AirBoundary.
C11_DegenerateNonAirBoundaryFaceSkipped ==
    [][(/\ ret'.op \in AllBuilderOps
        /\ ValidNonZeroCall(ret')
        /\ geometry[ret'.face].degenerate
        /\ boundary_condition[ret'.face] = Outdoors
        /\ type[ret'.face] # "AirBoundary")
           => /\ ~ret'.raised
              /\ apertures'[ret'.face] = <<>>
              /\ doors'[ret'.face] = <<>>]_vars

\* apertures_by_width_height_rectangle has returned from a degenerate Face that
\* held sub-faces and holds none now.
C11_Witness ==
    /\ ret.op = "apertures_by_width_height_rectangle"
    /\ ValidNonZeroCall(ret) /\ ~ret.raised
    /\ geometry[ret.face].degenerate
    /\ ret.had > 0
    /\ ~has_sub_faces(State, ret.face)

\* Every aperture of Face f is a rectangle.
AllRectangular(f) == \A o \in Range(apertures[f]) : sub[o].rectangular

\* C12 as stated: for every choice of its arguments, rectangularize_apertures
\* on a Face whose apertures are all rectangles returns False and leaves the
\* apertures as they were.
C12_RectangularizeIdempotent ==
    [][(ret'.op = "rectangularize_apertures" /\ AllRectangular(ret'.face))
          => /\ ~ret'.raised /\ ~ret'.result.changed
             /\ apertures' = apertures]_vars

\* C12 as amended: when max_separation is None or merge_all is False,
\* rectangularize_apertures on a Face whose apertures are all rectangles
\* returns False and leaves the apertures, and each of them, as they were; so
\* does a second call that follows a first one.
C12_RectangularizeIdempotentUnlessMergeAll ==
    [][\A subdivide, merge, merge_all \in BOOLEAN :
          (/\ ~merge \/ ~merge_all
           /\ AllRectangular(1)
           /\ RectangularizeApertures(1, subdivide, merge, merge_all, <<>>, <<>>))
              => /\ ~ret'.raised /\ ~ret'.result.changed
                 /\ apertures' = apertures
                 /\ sub' = sub]_vars

\* rectangularize_apertures has returned False on a Face whose apertures are
\* strips that an earlier call made.
C12_Witness ==
    /\ ret.op = "rectangularize_apertures" /\ ~ret.raised
    /\ ~ret.result.changed
    /\ apertures[ret.face] # <<>>
    /\ \A o \in Range(apertures[ret.face]) :
          sub[o].rectangular /\ sub[o].name.tag = "Glz"

\* C13: after rectangularize_apertures every aperture of the Face is a
\* rectangle, and every aperture that was not a rectangle before the call has
\* a replacement: an aperture of the Face, made by the call, that is a
\* rectangle and covers its centre.
C13_EveryApertureRectangularized ==
    [][(ret'.op = "rectangularize_apertures" /\ ~ret'.raised)
          => LET f == ret'.face
             IN  /\ \A n \in Range(apertures'[f]) : sub'[n].rectangular
                 /\ \A o \in Range(apertures[f]) :
                       ~sub[o].rectangular
                          => \E n \in Range(apertures'[f]) :
                                /\ n \notin DOMAIN sub
                                /\ sub'[n].rectangular
                                /\ sub[o].center \in Covers(sub'[n].center)]_vars

\* C14: whenever rectangularize_apertures returns False, the apertures, the
\* doors and the boundary conditions of the Faces, and every sub-face with its
\* boundary condition, are what they were before the call.
C14_FalseMeansUnchanged ==
    [][(ret'.op = "rectangularize_apertures" /\ ~ret'.raised
           /\ ~ret'.result.changed)
          => /\ apertures' = apertures
             /\ doors' = doors
             /\ boundary_condition' = boundary_condition
             /\ sub' = sub]_vars

\* rectangularize_apertures has returned False on a Face with a Surface
\* boundary condition whose aperture has one too.
C14_Witness ==
    /\ ret.op = "rectangularize_apertures" /\ ~ret.raised
    /\ ~ret.result.changed
    /\ boundary_condition[ret.face].name = "Surface"
    /\ \E o \in Range(apertures[ret.face]) : sub[o].adj # None

\* C15: when rectangularize_apertures goes on to change the apertures of a
\* Face whose boundary condition is not Outdoors, the Face has an Outdoors
\* boundary condition after the call and none of its apertures and doors keeps
\* a Surface boundary condition.
C15_NoSurfaceSubFaceLeft ==
    [][(/\ ret'.op = "rectangularize_apertures" /\ ~ret'.raised
        /\ ret'.result.changed
        /\ boundary_condition[ret'.face].name # "Outdoors")
          => /\ boundary_condition'[ret'.face] = Outdoors
             /\ \A o \in Range(apertures'[ret'.face]) \cup Range(doors'[ret'.face]) :
                   sub'[o].adj = None]_vars

\* The apertures that a call of rectangularize_apertures made for its
\* geometries (lines 775-791), if it made any.
MadeNewAps ==
    /\ ret.op = "rectangularize_apertures" /\ ~ret.raised
    /\ ret.result.changed
    /\ ret.result.new # ret.result.old

C18_RebuiltFromOriginals ==
    (ret.op = "fix_invalid_sub_faces" /\ ret.result.rebuilt)
        => /\ ~ret.raised
           /\ Len(ret.result.new) = Len(ret.result.fixed)
           /\ \A i \in 1..Len(ret.result.new) :
                 LET n == ret.result.new[i]
                     old == ret.result.old
                     inside == {k \in 1..Len(old) :
                                   sub[old[k]].center \in Covers(ret.result.fixed[i])}
                 IN  /\ sub[n].center = ret.result.fixed[i]
                     /\ n \in Range(IF sub[n].kind = "Aperture"
                                    THEN apertures[ret.face] ELSE doors[ret.face])
                     /\ IF inside = {}
                        THEN sub[n].kind = "Aperture"
                        ELSE /\ sub[n].name = sub[old[Min(inside)]].name
                             /\ sub[n].kind = sub[old[Min(inside)]].kind
                             /\ sub[n].operable = sub[old[Min(inside)]].operable

\* A valid Face: with sub-faces its boundary condition is Outdoors or Surface
\* and its type is not AirBoundary.
ValidFace(f) ==
    has_sub_faces(State, f)
        => /\ boundary_condition[f].name \in {"Outdoors", "Surface"}
           /\ type[f] # "AirBoundary"

\* C19 as stated: for every valid Face, with any boundary condition, those of
\* extensions included, and with or without sub-faces,
\* Face.from_dict(face.to_dict()).to_dict() is face.to_dict().
C19_RoundTrip ==
    (ret.op = "round_trip" /\ ValidFace(ret.face))
        => ~ret.raised /\ ret.result.second = ret.result.first

\* C19 as amended: the same of every valid Face whose boundary condition is
\* one of honeybee.boundarycondition (Outdoors, Surface, Ground, Adiabatic).
C19_RoundTripOfCoreBoundaryConditions ==
    (/\ ret.op = "round_trip" /\ ValidFace(ret.face)
     /\ boundary_condition[ret.face].name \in CoreBoundaryConditions)
        => ~ret.raised /\ ret.result.second = ret.result.first

\* A Face with a Surface boundary condition, an aperture and a door, and one
\* with a Ground boundary condition, has been written and read back.
C19_Witness ==
    /\ ret.op = "round_trip" /\ ~ret.raised
    /\ ret.result.first.boundary_condition.type = "Surface"
    /\ ret.result.first.apertures # <<>>
    /\ ret.result.first.doors # <<>>
    /\ \E i \in 1..Len(ret.result.first.apertures) :
          ret.result.first.apertures[i].boundary_condition.type = "Surface"

ValidityChecks == {"check_apertures_valid", "check_doors_valid", "check_sub_faces_valid"}

\* The sub-faces of the Face that the check of ret looks at.
Checked ==
    CASE ret.op = "check_apertures_valid" -> apertures[ret.face]
      [] ret.op = "check_doors_valid" -> doors[ret.face]
      [] OTHER -> apertures[ret.face] \o doors[ret.face]

\* The invalid ones of them, in the order of the Face's lists.
InvalidChecked == SelectSeq(Checked, LAMBDA o : o \in ret.num.invalid)

\* The check of ret has a violation to report: an invalid sub-face, or for
\* check_sub_faces_overlapping two sub-faces that overlap.
Violation ==
    IF ret.op \in ValidityChecks THEN InvalidChecked # <<>>
    ELSE \E i, j \in 1..Len(Checked) : i # j /\ Overlap(State, Checked[i], Checked[j])

\* C20: each of the four checks raises, with raise_exception, exactly when
\* there is a violation; without raise_exception it never raises and returns
\* the empty result ('' or, when detailed, []) exactly when there is none; and
\* check_apertures_valid and check_doors_valid, detailed, return one record
\* for each invalid sub-face.
C20_DualMode ==
    ret.op \in ValidityChecks \cup {"check_sub_faces_overlapping"}
        => /\ ret.num.raise_exception => (ret.raised <=> Violation)
           /\ ~ret.num.raise_exception
                 => /\ ~ret.raised
                    /\ ret.result.kind = IF ret.num.detailed THEN "list" ELSE "str"
                    /\ ret.result.value = <<>> <=> ~Violation
           /\ (/\ ~ret.num.raise_exception /\ ret.num.detailed
               /\ ret.op \in {"check_apertures_valid", "check_doors_valid"})
                 => /\ Len(ret.result.value) = Len(InvalidChecked)
                    /\ \A i \in 1..Len(InvalidChecked) :
                          ret.result.value[i].element_id
                              = <<sub[InvalidChecked[i]].name>>

\* check_sub_faces_valid, not detailed, has returned a message for a Face
\* with a valid aperture and an invalid door.
C20_Witness ==
    /\ ret.op = "check_sub_faces_valid"
    /\ ~ret.num.raise_exception /\ ~ret.num.detailed
    /\ ~ret.raised /\ ret.result.value # <<>>
    /\ apertures[ret.face] # <<>>
    /\ \A i \in 1..Len(apertures[ret.face]) :
          apertures[ret.face][i] \notin ret.num.invalid

CliOps == {"convert-units", "solve-adjacency", "windows-by-ratio",
           "windows-by-ratio-rect", "extruded-border", "overhang",
           "louvers-by-count", "louvers-by-spacing", "reset-resource-ids"}

\* Whether the command of ret had an exception, told from its inputs and the
\* Model alone: a call into outside code raised, the tolerance was 0 where
\* the command asserts it is not, or a builder was handed a ratio it rejects
\* for an outdoor wall.
CliException ==
    LET io == ret.num.io
        walls == \E f \in Faces : OutdoorWall(State, f)
    IN  \/ io.load \/ io.write
        \/ io.tolerance = 0
              /\ ret.op \notin {"convert-units", "extruded-border", "reset-resource-ids"}
        \/ io.edit /\ ret.op \in {"convert-units", "solve-adjacency", "extruded-border",
                                  "windows-by-ratio-rect", "reset-resource-ids"}
        \/ io.edit /\ walls
              /\ ret.op \in {"overhang", "louvers-by-count", "louvers-by-spacing"}
        \/ ret.op = "windows-by-ratio" /\ walls /\ ~RatioOk(ret.num.ratio)
        \/ ret.op = "windows-by-ratio-rect" /\ walls /\ ~RatioRectangleOk(ret.num.ratio)

\* C21: every edit command exits with status 0 exactly when loading, editing
\* and writing the Model went without an exception, and with status 1 on any
\* exception.
C21_ExitStatus ==
    ret.op \in CliOps
        => /\ ret.raised <=> CliException
           /\ ret.result.status = 0 <=> ~CliException
           /\ CliException => ret.result.status = 1

\* windows-by-ratio has exited with status 1 because apertures_by_ratio
\* rejected the ratio, and not for any failure of the load or the write.
C21_Witness ==
    /\ ret.op = "windows-by-ratio" /\ ret.result.status = 1
    /\ ~ret.num.io.load /\ ~ret.num.io.write /\ ret.num.io.tolerance # 0

\* The call of ret' added the object it was handed to the list of its kind.
Added ==
    /\ ~ret'.raised
    /\ sub'[Len(sub')].parent = ret'.face
    /\ IF ret'.op = "add_aperture"
       THEN /\ apertures'[ret'.face] = Append(apertures[ret'.face], Len(sub'))
            /\ doors' = doors
       ELSE /\ doors'[ret'.face] = Append(doors[ret'.face], Len(sub'))
            /\ apertures' = apertures

\* The call of ret' raised and left the lists of the Face, the parent of the
\* object it was handed and the cached punched geometry as they were.
Refused ==
    /\ ret'.raised
    /\ apertures' = apertures /\ doors' = doors
    /\ punched_geometry' = punched_geometry
    /\ sub'[Len(sub')].parent = None

\* C22 as stated: add_aperture and add_door succeed on a Face with an Outdoors
\* or a Surface boundary condition and a type other than AirBoundary, and on
\* every other Face raise and leave the Face and the object unchanged.
C22_AddToOutdoorsOrSurface ==
    [][ret'.op \in {"add_aperture", "add_door"}
          => IF /\ boundary_condition[ret'.face].name \in {"Outdoors", "Surface"}
                /\ type[ret'.face] # "AirBoundary"
             THEN Added ELSE Refused]_vars

\* C22 as amended: they succeed on a Face with an Outdoors boundary condition
\* and a type other than AirBoundary, and on every other Face (Surface,
\* Ground, Adiabatic, AirBoundary type) raise and leave the Face and the
\* object unchanged.
C22_AddToOutdoorsOnly ==
    [][ret'.op \in {"add_aperture", "add_door"}
          => IF /\ boundary_condition[ret'.face].name = "Outdoors"
                /\ type[ret'.face] # "AirBoundary"
             THEN Added ELSE Refused]_vars

\* add_door has raised on a Face with a Surface boundary condition that holds
\* an aperture and a cached punched geometry.
C22_Witness ==
    /\ ret.op = "add_door" /\ ret.raised
    /\ boundary_condition[ret.face].name = "Surface"
    /\ apertures[ret.face] # <<>>
    /\ punched_geometry[ret.face] # <<>>

\* C23: Face.from_dict removes every hole with fewer than 3 vertices from the
\* geometry dictionary, and no other hole, wherever the invalid holes are in
\* the list.
C23_InvalidHolesRemoved ==
    ret.op = "from_dict"
        => ret.result.holes = SelectSeq(ret.num, LAMBDA h : h >= MinVertices)

\* C24: whatever sub-face operations were called, an Aperture or a Door has
\* the Face as its parent exactly when it is in the Face's list of apertures
\* or of doors; a sub-face that was removed has no parent.
C24_ParentIffListed ==
    \A o \in 1..Len(sub), f \in Faces :
        sub[o].parent = f <=> o \in Range(apertures[f]) \cup Range(doors[f])

\* The identifiers that the records of ret name.
NamedInRecords ==
    UNION {Range(ret.result.value[i].element_id) : i \in 1..Len(ret.result.value)}

\* C25: check_sub_faces_overlapping, detailed and not raising, names in the
\* element_id of some record every sub-face of the Face that overlaps another
\* one, and names no sub-face that overlaps nothing.
C25_AllOverlapsCollected ==
    (/\ ret.op = "check_sub_faces_overlapping"
     /\ ~ret.num.raise_exception /\ ret.num.detailed)
        => \A i \in 1..Len(Checked) :
              sub[Checked[i]].name \in NamedInRecords
                  <=> \E j \in 1..Len(Checked) :
                         j # i /\ Overlap(State, Checked[i], Checked[j])

RepairOps == {"offset_aperture_edges", "merge_neighboring_sub_faces",
              "fix_invalid_sub_faces"}

\* C26: a call of offset_aperture_edges, merge_neighboring_sub_faces or
\* fix_invalid_sub_faces that raises leaves the Face with the apertures and
\* the doors it held before the call.
C26_RaisedRepairChangesNothing ==
    [][(ret'.op \in RepairOps /\ ret'.raised)
          => /\ apertures'[ret'.face] = apertures[ret'.face]
             /\ doors'[ret'.face] = doors[ret'.face]]_vars

\* The identifiers of the sub-faces q are pairwise distinct.
Distinct(q, names) ==
    \A i, j \in 1..Len(q) : i # j => names[q[i]].name # names[q[j]].name

\* C28: if the identifiers of the apertures and doors of a Face are pairwise
\* distinct before fix_invalid_sub_faces or merge_neighboring_sub_faces, they
\* are pairwise distinct after it.
C28_IdentifiersStayUnique ==
    [][(/\ ret'.op \in {"fix_invalid_sub_faces", "merge_neighboring_sub_faces"}
        /\ Distinct(apertures[ret'.face] \o doors[ret'.face], sub))
          => Distinct(apertures'[ret'.face] \o doors'[ret'.face], sub')]_vars

\* The pairs are a one-to-one matching of the sub-faces mine with the
\* sub-faces others: each is in exactly one pair.
OneToOne(pairs, mine, others) ==
    /\ \A i \in 1..Len(mine) :
          Cardinality({k \in 1..Len(pairs) : pairs[k][1] = mine[i]}) = 1
    /\ \A j \in 1..Len(others) :
          Cardinality({k \in 1..Len(pairs) : pairs[k][2] = others[j]}) = 1

\* C27: when set_adjacency of two Faces succeeds, the pairs it returns match
\* the apertures, and the doors, of the two Faces one to one: no sub-face of
\* the other Face is paired twice and none is left unpaired.
C27_PairsAreOneToOne ==
    (ret.op = "set_adjacency" /\ ~ret.raised /\ ret.face # ret.other)
        => /\ OneToOne(ret.result.adjacent_apertures,
                       apertures[ret.face], apertures[ret.other])
           /\ OneToOne(ret.result.adjacent_doors,
                       doors[ret.face], doors[ret.other])

\* The candidates of the call of ret': the rectangular apertures that it
\* retained and the apertures that it made, largest first.
Candidates ==
    by_area(State', SelectSeq(apertures[ret'.face],
                        LAMBDA o : o \notin Range(ret'.result.old)
                                   /\ ~sub[o].degenerate)
                    \o ret'.result.new)

C30_RowsPartitioned ==
    ret.op = "merge_rows" =>
       LET rows == ret.result.sorted_groups
           runs == ret.result.runs
           strips == ret.result.merged_groups
       IN  /\ ret.result.terminated /\ ~ret.raised
           /\ Len(runs) >= 1 /\ Len(strips) = Len(runs)
           /\ runs[1][1] = 0
           /\ runs[Len(runs)][2] = Len(rows) - 1
           /\ \A k \in 1..Len(runs) :
                 /\ runs[k][1] <= runs[k][2]
                 /\ k < Len(runs) => runs[k + 1][1] = runs[k][2] + 1
                 /\ strips[k].min = At(rows, runs[k][1]).min
                 /\ strips[k].max = At(rows, runs[k][2]).max
           /\ \A i \in 0..(Len(rows) - 1) :
                 Cardinality({k \in 1..Len(runs) :
                                 runs[k][1] <= i /\ i <= runs[k][2]}) = 1

C30_Witness ==
    /\ ret.op = "merge_rows" /\ ret.result.terminated
    /\ Len(ret.result.sorted_groups) = MaxRows
    /\ Len(ret.result.runs) > 1
    /\ \E k \in 1..Len(ret.result.runs) :
          ret.result.runs[k][1] < ret.result.runs[k][2]

====
